---- MODULE Spec2Model ----
(***************************************************************************)
(* FQ-CoDel flow queue core of bsd/net/classq/classq_fq_codel.c:          *)
(* fq_addq (admit), fq_getq_flow (remove), fq_head_drop, fq_compressor    *)
(* and fq_detect_dequeue_stall, over a small set of flows of one class.   *)
(***************************************************************************)
EXTENDS Integers, Sequences, FiniteSets, TLC

(* ---------------- bounds of the model ---------------- *)
NFlows == 2
MaxPkts == 3
MaxChain == 2
MaxPktsT == 4
MaxTimeT == 5
MaxTimeC == 3
MaxPktsS == 5
MaxPktsO == 6
MaxTimeS == 4
CounterBits == 5
MaxArms == 3

(* ---------------- program constants ---------------- *)
DTYPE_NODROP == 0
DTYPE_FORCED == 1
DTYPE_EARLY == 2
pkt_compressor == 1

(* configured values of the interface, class and group (scaled) *)
fqs_pkt_droplimit == 2
FQ_MIN_FC_THRESHOLD_BYTES == 2
FQ_IF_LARGE_FLOW_BYTE_LIMIT == 3
fqg_target_qdelay == 1
fqg_update_interval == 2
fcl_quantum == 3

NULL == 0
Flows == 1 .. NFlows
UINT64_MAX == (2 ^ CounterBits) - 1

FQF_FLOWCTL_CAPABLE == "FQF_FLOWCTL_CAPABLE"
FQF_DELAY_HIGH == "FQF_DELAY_HIGH"
FQF_NEW_FLOW == "FQF_NEW_FLOW"
FQF_OLD_FLOW == "FQF_OLD_FLOW"
FQF_FLOWCTL_ON == "FQF_FLOWCTL_ON"
FQF_EMPTY_FLOW == "FQF_EMPTY_FLOW"
FQF_OVERWHELMING == "FQF_OVERWHELMING"

CLASSQEQ_SUCCESS == "CLASSQEQ_SUCCESS"
CLASSQEQ_SUCCESS_FC == "CLASSQEQ_SUCCESS_FC"
CLASSQEQ_DROP == "CLASSQEQ_DROP"
CLASSQEQ_DROP_FC == "CLASSQEQ_DROP_FC"
CLASSQEQ_COMPRESSED == "CLASSQEQ_COMPRESSED"

IPPROTO_TCP == "IPPROTO_TCP"
IPPROTO_QUIC == "IPPROTO_QUIC"
IPPROTO_UDP == "IPPROTO_UDP"
Protos == {IPPROTO_TCP, IPPROTO_QUIC, IPPROTO_UDP}

VARIABLES fq, fcl_stat, fcl_new_flows, fcl_old_flows, fqs_empty_list,
          fqs_large_flow, fqs_fclist, ifcq_len, clock, next_id, panic,
          last, ivl, stalls, thr, timer

vars == <<fq, fcl_stat, fcl_new_flows, fcl_old_flows, fqs_empty_list,
          fqs_large_flow, fqs_fclist, ifcq_len, clock, next_id, panic,
          last, ivl, stalls, thr, timer>>

(* the threads that run the packet path side by side, one flow each *)
Threads == {1, 2}

(* a thread between two operations: nothing loaded, nothing to store; *)
(* locked: it holds the interface lock until its operation is over;   *)
(* bare: it has run an operation without holding that lock throughout *)
IdleThread ==
  [pc |-> "idle", reg |-> 0, db |-> 0, dp |-> 0, locked |-> FALSE,
   bare |-> FALSE]

(* struct mk_timer as mk_timer_create_trap leaves it (Z_ZERO), with the *)
(* state of its thread call (pending: on the call queue; entered:       *)
(* callbacks taken off the queue that have not yet got the timer lock;  *)
(* sending: callbacks that dropped the lock to send the message) and of *)
(* its port (port_dead: the kobject was disabled).  freed, freer and    *)
(* stale record zfree and any access after it; arms and msgs count the  *)
(* arms that took effect and the expiration messages sent.              *)
NewTimer ==
  [active |-> 0, is_armed |-> FALSE, is_dead |-> FALSE,
   pending |-> FALSE, entered |-> 0, sending |-> 0, port_dead |-> FALSE,
   freed |-> 0, freer |-> "none", stale |-> FALSE, arms |-> 0, msgs |-> 0]

(* ---------------- generic helpers ---------------- *)
RECURSIVE SumLen(_)
SumLen(q) == IF q = <<>> THEN 0 ELSE Head(q).len + SumLen(Tail(q))

Min(a, b) == IF a < b THEN a ELSE b

RemoveFrom(list, f) == SelectSeq(list, LAMBDA x : x # f)

InList(list, f) == \E i \in 1 .. Len(list) : list[i] = f

Front(q) == SubSeq(q, 1, Len(q) - 1)

(* a flow queue object as fq_alloc leaves it: every field zero *)
ZeroFq ==
  [alloc |-> FALSE, q |-> <<>>, fq_bytes |-> 0, fq_flags |-> {},
   fq_getqtime |-> 0, fq_updatetime |-> 0, fq_min_qdelay |-> 0,
   fq_deficit |-> 0, fq_in_dqlist |-> FALSE]

(* the class statistics that take part in the contracts; the purely *)
(* informational ones (compressible hits, new-flow count, flow      *)
(* control and feedback counts, min/max delay) are left out         *)
ZeroStat ==
  [fcl_byte_cnt |-> 0, fcl_pkt_cnt |-> 0, fcl_drop_memfailure |-> 0,
   fcl_drop_early |-> 0, fcl_drop_overflow |-> 0,
   fcl_flow_control_fail |-> 0, fcl_dequeue_stall |-> 0,
   fcl_dequeue |-> 0, fcl_avg_qdelay |-> 0]

(* what one call did, kept for stating the per-call contracts *)
NoCall ==
  [op |-> "none", f |-> NULL, cnt |-> 0, now |-> 0, ret |-> "none",
   stall |-> FALSE, overload |-> "none", limit |-> "none",
   large |-> NULL, fc_set |-> FALSE, drops |-> <<>>, queued |-> FALSE,
   merged |-> FALSE, pkt |-> NULL, qdelay |-> 0,
   rolled |-> FALSE, cmp |-> 0, avg_reset |-> FALSE, replaced |-> NULL,
   to_empty |-> FALSE, odrops |-> 0, was_high |-> FALSE,
   nomem |-> FALSE, released |-> FALSE, deadline |-> 0, idle |-> FALSE,
   out |-> <<>>, dup |-> "none",
   in |-> [proto |-> "none", fadv |-> FALSE, fcok |-> FALSE],
   ivl |-> [n |-> 0, lo |-> 0, hi |-> 0, nz |-> 0]]

(* observation of one flow's current interval: how many packets were  *)
(* removed since the last rollover, their smallest and largest delay, *)
(* and the smallest delay that was not zero (0 when there was none)   *)
NoIvl == [n |-> 0, lo |-> 0, hi |-> 0, nz |-> 0]

(* the inputs of an admit besides the chain, when they are not recorded *)
NoIn == [proto |-> "none", fadv |-> FALSE, fcok |-> FALSE]

Observe(o, qdelay) ==
  [n |-> o.n + 1,
   lo |-> IF o.n = 0 \/ qdelay < o.lo THEN qdelay ELSE o.lo,
   hi |-> IF o.n = 0 \/ qdelay > o.hi THEN qdelay ELSE o.hi,
   nz |-> IF qdelay > 0 /\ (o.nz = 0 \/ qdelay < o.nz) THEN qdelay ELSE o.nz]

NoPkt ==
  [id |-> 0, len |-> 0, ts |-> 0, gen |-> 0, guarded |-> FALSE,
   first |-> FALSE]

(* what is kept on record of a packet that left the queues *)
Released(p) == [id |-> p.id, ts |-> p.ts, guarded |-> p.guarded]

(* the record the handlers work on: every variable they read or write *)
Cur ==
  [fq |-> fq, stat |-> fcl_stat, new_flows |-> fcl_new_flows,
   old_flows |-> fcl_old_flows, empty_list |-> fqs_empty_list,
   large_flow |-> fqs_large_flow, fclist |-> fqs_fclist,
   ifcq_len |-> ifcq_len, panic |-> panic, ivl |-> ivl,
   droptype |-> DTYPE_NODROP, fc_adv |-> 0, ret |-> CLASSQEQ_SUCCESS,
   call |-> NoCall]

(* ---------------- flag and queue macros ---------------- *)
FQ_IS_DELAY_HIGH(s, f) == FQF_DELAY_HIGH \in s.fq[f].fq_flags

FQ_IS_OVERWHELMING(s, f) == FQF_OVERWHELMING \in s.fq[f].fq_flags

SetFlag(s, f, flag) ==
  [s EXCEPT !.fq[f].fq_flags = @ \cup {flag}]

ClearFlag(s, f, flag) ==
  [s EXCEPT !.fq[f].fq_flags = @ \ {flag}]

fq_empty(s, f) == s.fq[f].q = <<>>

FQ_TARGET_DELAY(s, f) == fqg_target_qdelay

FQ_UPDATE_INTERVAL(s, f) == fqg_update_interval

FlowCtlCapable(f) == f % 2 = 1

Verify(s, cond) == IF cond THEN s ELSE [s EXCEPT !.panic = TRUE]

(* ---------------- flow queue pool ---------------- *)
(* a zeroed flow queue from the cache; a failed mcache_alloc is the *)
(* caller's allocok = FALSE                                         *)
fq_alloc == [ZeroFq EXCEPT !.alloc = TRUE, !.fq_in_dqlist = FALSE]

(* fq_destroy without the check of the list flags *)
fq_destroy_noflags(s, f) ==
  LET s1 == Verify(s, ~s.fq[f].fq_in_dqlist)
      s2 == Verify(s1, s.fq[f].q = <<>>)
      s3 == Verify(s2, s.fq[f].fq_bytes = 0)
  IN IF s3.panic THEN s3 ELSE [s3 EXCEPT !.fq[f] = ZeroFq]

fq_destroy(s, f) ==
  LET s1 == Verify(s, ~s.fq[f].fq_in_dqlist)
      s2 == Verify(s1, s.fq[f].q = <<>>)
      s3 == Verify(s2, s.fq[f].fq_flags \cap
                         {FQF_NEW_FLOW, FQF_OLD_FLOW, FQF_EMPTY_FLOW} = {})
      s4 == Verify(s3, s.fq[f].fq_bytes = 0)
  IN IF s4.panic THEN s4 ELSE [s4 EXCEPT !.fq[f] = ZeroFq]

(* ---------------- collaborators outside classq_fq_codel.c ---------------- *)
fq_if_at_drop_limit(s) == s.ifcq_len >= fqs_pkt_droplimit

fq_if_almost_at_drop_limit(s) == s.ifcq_len >= (fqs_pkt_droplimit * 9) \div 10

(* classifier: look the flow queue up, create it on demand, take it off *)
(* the empty list when it is re-activated                               *)
fq_if_hash_pkt(s, f, now, allocok) ==
  IF s.fq[f].alloc
  THEN IF FQF_EMPTY_FLOW \in s.fq[f].fq_flags
       THEN [s |-> [s EXCEPT !.empty_list = RemoveFrom(@, f),
                             !.fq[f].fq_flags = @ \ {FQF_EMPTY_FLOW}],
             fq |-> f]
       ELSE [s |-> s, fq |-> f]
  ELSE IF allocok
       THEN [s |-> [s EXCEPT !.fq[f] =
                      [fq_alloc EXCEPT
                         !.fq_flags = IF FlowCtlCapable(f)
                                      THEN {FQF_FLOWCTL_CAPABLE} ELSE {},
                         !.fq_updatetime = now + fqg_update_interval]],
             fq |-> f]
       ELSE [s |-> s, fq |-> NULL]

(* flow-control table: register an advisory entry for the flow *)
fq_if_add_fcentry(s, f, fcok) ==
  IF f \in s.fclist THEN [s |-> s, ok |-> TRUE]
  ELSE IF fcok
       THEN [s |-> [s EXCEPT !.fclist = @ \cup {f}], ok |-> TRUE]
       ELSE [s |-> s, ok |-> FALSE]

(* flow-control table: release the advisory of the flow *)
fq_if_flow_feedback(s, f) ==
  [s EXCEPT !.fclist = @ \ {f},
            !.fq[f].fq_flags = @ \ {FQF_FLOWCTL_ON}]

fq_if_move_to_empty_flow(s, f) ==
  [s EXCEPT !.empty_list = Append(@, f),
            !.fq[f].fq_flags = (@ \cup {FQF_EMPTY_FLOW}) \ {FQF_OVERWHELMING}]

fq_if_empty_new_flow(s, f) ==
  [s EXCEPT !.new_flows = RemoveFrom(@, f),
            !.old_flows = Append(@, f),
            !.fq[f].fq_flags = (@ \ {FQF_NEW_FLOW}) \cup {FQF_OLD_FLOW}]

fq_if_empty_old_flow(s, f) ==
  LET s1 == [s EXCEPT !.old_flows = RemoveFrom(@, f),
                      !.fq[f].fq_flags = @ \ {FQF_OLD_FLOW}]
      s2 == IF FQF_FLOWCTL_ON \in s1.fq[f].fq_flags
            THEN fq_if_flow_feedback(s1, f) ELSE s1
  IN fq_if_move_to_empty_flow(s2, f)

(* heavy-flow reclassification: keeps fqs_large_flow *)
fq_if_is_flow_heavy(s, f) ==
  LET s1 == IF s.large_flow # NULL /\
               s.fq[s.large_flow].fq_bytes < FQ_IF_LARGE_FLOW_BYTE_LIMIT
            THEN [s EXCEPT !.large_flow = NULL] ELSE s
  IN IF f = NULL \/ s1.fq[f].fq_bytes < FQ_IF_LARGE_FLOW_BYTE_LIMIT
     THEN s1
     ELSE IF s1.large_flow = NULL
          THEN IF ~fq_empty(s1, f)
               THEN [s1 EXCEPT !.large_flow = f] ELSE s1
          ELSE IF s1.fq[f].fq_bytes > s1.fq[s1.large_flow].fq_bytes
               THEN [s1 EXCEPT !.large_flow = f] ELSE s1

(* ---------------- classq_fq_codel.c ---------------- *)
(* stall detection that does not look at the delay-high flag *)
fq_detect_dequeue_stall_recount(s, f, now) ==
  IF s.fq[f].fq_getqtime = 0 \/ fq_empty(s, f) \/
     s.fq[f].fq_bytes < FQ_MIN_FC_THRESHOLD_BYTES
  THEN s
  ELSE LET update_interval == FQ_UPDATE_INTERVAL(s, f)
           maxgetqtime == s.fq[f].fq_getqtime + update_interval
       IN IF now > maxgetqtime
          THEN [SetFlag(s, f, FQF_DELAY_HIGH) EXCEPT
                  !.stat.fcl_dequeue_stall = @ + 1,
                  !.call.stall = TRUE]
          ELSE s

(* stall detection that needs more than the minimum backlog *)
fq_detect_dequeue_stall_gt(s, f, now) ==
  IF FQ_IS_DELAY_HIGH(s, f) \/ s.fq[f].fq_getqtime = 0 \/ fq_empty(s, f) \/
     s.fq[f].fq_bytes <= FQ_MIN_FC_THRESHOLD_BYTES
  THEN s
  ELSE LET update_interval == FQ_UPDATE_INTERVAL(s, f)
           maxgetqtime == s.fq[f].fq_getqtime + update_interval
       IN IF now > maxgetqtime
          THEN [SetFlag(s, f, FQF_DELAY_HIGH) EXCEPT
                  !.stat.fcl_dequeue_stall = @ + 1,
                  !.call.stall = TRUE]
          ELSE s

fq_detect_dequeue_stall(s, f, now) ==
  IF FQ_IS_DELAY_HIGH(s, f) \/ s.fq[f].fq_getqtime = 0 \/ fq_empty(s, f) \/
     s.fq[f].fq_bytes < FQ_MIN_FC_THRESHOLD_BYTES
  THEN s
  ELSE LET update_interval == FQ_UPDATE_INTERVAL(s, f)
           maxgetqtime == s.fq[f].fq_getqtime + update_interval
       IN IF now > maxgetqtime
          THEN [SetFlag(s, f, FQF_DELAY_HIGH) EXCEPT
                  !.stat.fcl_dequeue_stall = @ + 1,
                  !.call.stall = TRUE]
          ELSE s

(* removal that hands out the newest packet *)
fq_getq_flow_internal_lifo(s, f) ==
  IF fq_empty(s, f)
  THEN [s |-> s, pkt |-> NoPkt]
  ELSE LET p == s.fq[f].q[Len(s.fq[f].q)]
           plen == p.len
           s1 == Verify(s, s.fq[f].fq_bytes >= plen)
           s2 == [s1 EXCEPT !.fq[f].q = Front(@),
                            !.fq[f].fq_bytes = @ - plen,
                            !.stat.fcl_byte_cnt = @ - plen,
                            !.stat.fcl_pkt_cnt = @ - 1,
                            !.ifcq_len = @ - 1]
           s3 == IF fq_empty(s2, f)
                 THEN [s2 EXCEPT !.fq[f].fq_getqtime = 0] ELSE s2
       IN [s |-> s3, pkt |-> p]

fq_getq_flow_internal(s, f) ==
  IF fq_empty(s, f)
  THEN [s |-> s, pkt |-> NoPkt]
  ELSE LET p == Head(s.fq[f].q)
           plen == p.len
           s1 == Verify(s, s.fq[f].fq_bytes >= plen)
           s2 == [s1 EXCEPT !.fq[f].q = Tail(@),
                            !.fq[f].fq_bytes = @ - plen,
                            !.stat.fcl_byte_cnt = @ - plen,
                            !.stat.fcl_pkt_cnt = @ - 1,
                            !.ifcq_len = @ - 1]
           s3 == IF fq_empty(s2, f)
                 THEN [s2 EXCEPT !.fq[f].fq_getqtime = 0] ELSE s2
       IN [s |-> s3, pkt |-> p]

(* fq_head_drop that takes the newest packet instead of the oldest *)
fq_head_drop_tail(s, f) ==
  IF fq_empty(s, f)
  THEN s
  ELSE LET m == s.fq[f].q[Len(s.fq[f].q)]
       IN [s EXCEPT !.fq[f].q = Front(@),
                    !.fq[f].fq_bytes = @ - m.len,
                    !.stat.fcl_byte_cnt = @ - m.len,
                    !.stat.fcl_pkt_cnt = @ - 1,
                    !.ifcq_len = @ - 1,
                    !.call.drops = Append(@, [f |-> f, id |-> m.id])]

(* fq_head_drop that frees the packet with its tag and timestamp on *)
fq_head_drop_keeptag(s, f) ==
  LET r == fq_getq_flow_internal(s, f)
  IN IF r.pkt = NoPkt
     THEN s
     ELSE [r.s EXCEPT !.call.drops = Append(@, [f |-> f, id |-> r.pkt.id]),
                      !.call.out = Append(@, Released(r.pkt))]

fq_head_drop(s, f) ==
  LET r == fq_getq_flow_internal(s, f)
  IN IF r.pkt = NoPkt
     THEN s
     ELSE [r.s EXCEPT !.call.drops = Append(@, [f |-> f, id |-> r.pkt.id]),
                      !.call.out =
                         Append(@, Released([r.pkt EXCEPT
                                               !.ts = 0,
                                               !.guarded = FALSE]))]

(* head-drop loop that runs once more than the chain has packets *)
RECURSIVE HeadDropLoop_more(_, _, _)
HeadDropLoop_more(s, f, n) ==
  IF n = 0 THEN fq_head_drop(s, f)
  ELSE HeadDropLoop_more(fq_head_drop(s, f), f, n - 1)

RECURSIVE HeadDropLoop(_, _, _)
HeadDropLoop(s, f, n) ==
  IF n = 0 THEN s ELSE HeadDropLoop(fq_head_drop(s, f), f, n - 1)

(* fq_compressor that leaves the new packet its own timestamp *)
fq_compressor_newts(s, f, pkt) ==
  IF pkt_compressor = 0 \/ pkt.gen = 0 \/ fq_empty(s, f)
  THEN [s |-> s, ret |-> CLASSQEQ_SUCCESS, pkt |-> pkt]
  ELSE LET m == s.fq[f].q[Len(s.fq[f].q)]
       IN IF pkt.gen # m.gen
          THEN [s |-> s, ret |-> CLASSQEQ_SUCCESS, pkt |-> pkt]
          ELSE [s |-> [s EXCEPT !.fq[f].q = Front(@),
                                !.fq[f].fq_bytes = @ - m.len,
                                !.stat.fcl_byte_cnt = @ - m.len,
                                !.stat.fcl_pkt_cnt = @ - 1,
                                !.ifcq_len = @ - 1,
                                !.call.merged = TRUE,
                                !.call.replaced = m.id],
                ret |-> CLASSQEQ_COMPRESSED,
                pkt |-> pkt]

(* fq_compressor that forgets to take the replaced packet off fq_bytes *)
fq_compressor_keepbytes(s, f, pkt) ==
  IF pkt_compressor = 0 \/ pkt.gen = 0 \/ fq_empty(s, f)
  THEN [s |-> s, ret |-> CLASSQEQ_SUCCESS, pkt |-> pkt]
  ELSE LET m == s.fq[f].q[Len(s.fq[f].q)]
       IN IF pkt.gen # m.gen
          THEN [s |-> s, ret |-> CLASSQEQ_SUCCESS, pkt |-> pkt]
          ELSE [s |-> [s EXCEPT !.fq[f].q = Front(@),
                                !.stat.fcl_byte_cnt = @ - m.len,
                                !.stat.fcl_pkt_cnt = @ - 1,
                                !.ifcq_len = @ - 1,
                                !.call.merged = TRUE,
                                !.call.replaced = m.id],
                ret |-> CLASSQEQ_COMPRESSED,
                pkt |-> [pkt EXCEPT !.ts = m.ts]]

fq_compressor(s, f, pkt) ==
  IF pkt_compressor = 0
  THEN [s |-> s, ret |-> CLASSQEQ_SUCCESS, pkt |-> pkt]
  ELSE IF pkt.gen = 0
  THEN [s |-> s, ret |-> CLASSQEQ_SUCCESS, pkt |-> pkt]
  ELSE LET s1 == s
       IN IF fq_empty(s1, f)
          THEN [s |-> s1, ret |-> CLASSQEQ_SUCCESS, pkt |-> pkt]
          ELSE LET m == s1.fq[f].q[Len(s1.fq[f].q)]
               IN IF pkt.gen # m.gen
                  THEN [s |-> s1, ret |-> CLASSQEQ_SUCCESS, pkt |-> pkt]
                  ELSE [s |-> [s1 EXCEPT
                                 !.fq[f].q = Front(@),
                                 !.fq[f].fq_bytes = @ - m.len,
                                 !.stat.fcl_byte_cnt = @ - m.len,
                                 !.stat.fcl_pkt_cnt = @ - 1,
                                 !.ifcq_len = @ - 1,
                                 !.call.merged = TRUE,
                                 !.call.replaced = m.id],
                        ret |-> CLASSQEQ_COMPRESSED,
                        pkt |-> [pkt EXCEPT !.ts = m.ts]]


(* scheduler-side drop used when another flow is the recorded largest: *)
(* one packet off the head of fqs_large_flow                           *)
fq_if_drop_packet(s, now) ==
  LET f == s.large_flow
  IN IF f = NULL
     THEN s
     ELSE LET r == fq_getq_flow_internal(s, f)
          IN IF r.pkt = NoPkt
             THEN s
             ELSE LET s1 == [r.s EXCEPT
                               !.stat.fcl_drop_overflow = @ + 1,
                               !.call.drops =
                                  Append(@, [f |-> f, id |-> r.pkt.id])]
                  IN IF fq_empty(s1, f)
                     THEN LET s2 == [s1 EXCEPT !.large_flow = NULL]
                          IN IF FQF_OLD_FLOW \in s2.fq[f].fq_flags
                             THEN fq_if_empty_old_flow(s2, f)
                             ELSE IF FQF_NEW_FLOW \in s2.fq[f].fq_flags
                                  THEN fq_if_empty_new_flow(s2, f)
                                  ELSE s2
                     ELSE s1

RECURSIVE DropPacketLoop(_, _, _)
DropPacketLoop(s, now, n) ==
  IF n = 0 THEN s ELSE DropPacketLoop(fq_if_drop_packet(s, now), now, n - 1)

NotTcpQuic(proto) == proto # IPPROTO_TCP /\ proto # IPPROTO_QUIC

(* fq_addq, overload branch: the flow is delay-high or overwhelming *)
(* overload branch that drops the chains of TCP and QUIC *)
addq_overload_swapped(s, f, in) ==
  LET cnt == Len(in.chain)
  IN IF FQ_IS_DELAY_HIGH(s, f) \/ FQ_IS_OVERWHELMING(s, f)
     THEN IF FQF_FLOWCTL_CAPABLE \in s.fq[f].fq_flags /\ in.fadv
          THEN LET s1 == [s EXCEPT !.fc_adv = 1, !.call.overload = "fc"]
               IN IF ~NotTcpQuic(in.proto)
                  THEN [s1 EXCEPT !.droptype = DTYPE_EARLY,
                                  !.stat.fcl_drop_early = @ + cnt,
                                  !.call.overload = "fcdrop"]
                  ELSE s1
          ELSE LET s1 == IF ~fq_empty(s, f)
                         THEN [HeadDropLoop(s, f, cnt) EXCEPT
                                 !.droptype = DTYPE_NODROP,
                                 !.call.overload = "headdrop"]
                         ELSE [s EXCEPT !.droptype = DTYPE_EARLY,
                                        !.call.overload = "early"]
               IN [s1 EXCEPT !.stat.fcl_drop_early = @ + cnt]
     ELSE s

(* overload branch that drops the arriving chain, never the oldest packets *)
addq_overload_taildrop(s, f, in) ==
  LET cnt == Len(in.chain)
  IN IF FQ_IS_DELAY_HIGH(s, f) \/ FQ_IS_OVERWHELMING(s, f)
     THEN IF FQF_FLOWCTL_CAPABLE \in s.fq[f].fq_flags /\ in.fadv
          THEN LET s1 == [s EXCEPT !.fc_adv = 1, !.call.overload = "fc"]
               IN IF NotTcpQuic(in.proto)
                  THEN [s1 EXCEPT !.droptype = DTYPE_EARLY,
                                  !.stat.fcl_drop_early = @ + cnt,
                                  !.call.overload = "fcdrop"]
                  ELSE s1
          ELSE [s EXCEPT !.droptype = DTYPE_EARLY,
                         !.stat.fcl_drop_early = @ + cnt,
                         !.call.overload = "early"]
     ELSE s

addq_overload(s, f, in) ==
  LET cnt == Len(in.chain)
  IN IF FQ_IS_DELAY_HIGH(s, f) \/ FQ_IS_OVERWHELMING(s, f)
     THEN IF FQF_FLOWCTL_CAPABLE \in s.fq[f].fq_flags /\ in.fadv
          THEN LET s1 == [s EXCEPT !.fc_adv = 1, !.call.overload = "fc"]
               IN IF NotTcpQuic(in.proto)
                  THEN [s1 EXCEPT !.droptype = DTYPE_EARLY,
                                  !.stat.fcl_drop_early = @ + cnt,
                                  !.call.overload = "fcdrop"]
                  ELSE s1
          ELSE LET s1 == IF ~fq_empty(s, f)
                         THEN [HeadDropLoop(s, f, cnt) EXCEPT
                                 !.droptype = DTYPE_NODROP,
                                 !.call.overload = "headdrop"]
                         ELSE [s EXCEPT !.droptype = DTYPE_EARLY,
                                        !.call.overload = "early"]
               IN [s1 EXCEPT !.stat.fcl_drop_early = @ + cnt]
     ELSE s

(* return code that lets the chain through when registration fails *)
addq_fcret_soft(s, f, in) ==
  IF s.fc_adv = 1 /\ s.droptype # DTYPE_FORCED
  THEN LET r == fq_if_add_fcentry(s, f, in.fcok)
       IN IF r.ok
          THEN [r.s EXCEPT !.fq[f].fq_flags = @ \cup {FQF_FLOWCTL_ON},
                           !.call.fc_set = TRUE,
                           !.ret = IF s.droptype = DTYPE_NODROP
                                   THEN CLASSQEQ_SUCCESS_FC
                                   ELSE CLASSQEQ_DROP_FC]
          ELSE [r.s EXCEPT !.ret = CLASSQEQ_DROP_FC,
                           !.stat.fcl_flow_control_fail = @ + 1]
  ELSE s

(* fq_addq, "set the return code correctly" *)
addq_fcret(s, f, in) ==
  IF s.fc_adv = 1 /\ s.droptype # DTYPE_FORCED
  THEN LET r == fq_if_add_fcentry(s, f, in.fcok)
       IN IF r.ok
          THEN [r.s EXCEPT !.fq[f].fq_flags = @ \cup {FQF_FLOWCTL_ON},
                           !.call.fc_set = TRUE,
                           !.ret = IF s.droptype = DTYPE_NODROP
                                   THEN CLASSQEQ_SUCCESS_FC
                                   ELSE CLASSQEQ_DROP_FC]
          ELSE [r.s EXCEPT !.droptype = DTYPE_FORCED,
                           !.ret = CLASSQEQ_DROP_FC,
                           !.stat.fcl_flow_control_fail = @ + 1]
  ELSE s

(* fq_addq, drop-limit branch, the admitting flow is the largest flow *)
addq_limit_self(s, f, in) ==
  LET cnt == Len(in.chain)
      s1 == [HeadDropLoop(s, f, cnt) EXCEPT
               !.stat.fcl_drop_overflow = @ + cnt,
               !.call.limit = "self"]
  IN IF FQF_FLOWCTL_CAPABLE \in s1.fq[f].fq_flags /\ in.fadv /\
        NotTcpQuic(in.proto)
     THEN LET r == fq_if_add_fcentry(s1, f, in.fcok)
          IN IF r.ok
             THEN [r.s EXCEPT
                     !.fq[f].fq_flags =
                        @ \cup {FQF_FLOWCTL_ON, FQF_OVERWHELMING},
                     !.call.fc_set = TRUE,
                     !.ret = CLASSQEQ_SUCCESS_FC]
             ELSE r.s
     ELSE s1

(* drop-limit branch that leaves the fresh flow where it is *)
addq_limit_nolarge_leak(s, f, in) ==
  LET cnt == Len(in.chain)
  IN [s EXCEPT !.droptype = DTYPE_FORCED,
               !.stat.fcl_drop_overflow = @ + cnt,
               !.ret = CLASSQEQ_DROP,
               !.call.limit = "nolarge"]

(* fq_addq, drop-limit branch, no largest flow is recorded *)
addq_limit_nolarge(s, f, in) ==
  LET cnt == Len(in.chain)
      s1 == [s EXCEPT !.droptype = DTYPE_FORCED,
                      !.stat.fcl_drop_overflow = @ + cnt,
                      !.ret = CLASSQEQ_DROP,
                      !.call.limit = "nolarge"]
  IN IF fq_empty(s1, f) /\
        s1.fq[f].fq_flags \cap {FQF_NEW_FLOW, FQF_OLD_FLOW} = {}
     THEN [fq_if_move_to_empty_flow(s1, f) EXCEPT !.call.to_empty = TRUE]
     ELSE s1

(* fq_addq, drop-limit branch, another flow is the largest flow *)
addq_limit_other(s, f, in) ==
  [DropPacketLoop(s, in.chain[1].ts, Len(in.chain)) EXCEPT
     !.call.limit = "other"]

addq_droplimit(s, f, in) ==
  IF s.droptype = DTYPE_NODROP /\ fq_if_at_drop_limit(s)
  THEN LET s1 == [s EXCEPT !.call.large = s.large_flow,
                           !.call.odrops = Len(s.call.drops)]
       IN IF s1.large_flow = f
          THEN addq_limit_self(s1, f, in)
          ELSE IF s1.large_flow = NULL
               THEN addq_limit_nolarge(s1, f, in)
               ELSE addq_limit_other(s1, f, in)
  ELSE s

(* enqueue path that runs the compressor on chains as well *)
addq_compress_chain(s, f, in) ==
  LET r == fq_compressor(s, f, in.chain[1])
  IN [s |-> [r.s EXCEPT !.ret = IF r.ret # CLASSQEQ_COMPRESSED
                                THEN CLASSQEQ_SUCCESS
                                ELSE CLASSQEQ_COMPRESSED],
      chain |-> <<r.pkt>> \o Tail(in.chain)]

(* fq_addq, return code of the enqueue path for a chain of cnt packets *)
addq_compress(s, f, in) ==
  IF Len(in.chain) = 1
  THEN LET r == fq_compressor(s, f, in.chain[1])
       IN IF r.ret # CLASSQEQ_COMPRESSED
          THEN [s |-> [r.s EXCEPT !.ret = CLASSQEQ_SUCCESS],
                chain |-> <<r.pkt>>]
          ELSE [s |-> [r.s EXCEPT !.ret = CLASSQEQ_COMPRESSED],
                chain |-> <<r.pkt>>]
  ELSE [s |-> s, chain |-> in.chain]

(* fq_addq, activation of a flow that is neither new nor old *)
(* activation that links the flow at the head of the new-flows list *)
addq_activate_head(s, f) ==
  IF s.fq[f].fq_flags \cap {FQF_NEW_FLOW, FQF_OLD_FLOW} = {}
  THEN LET s1 == Verify(s, ~InList(s.new_flows, f) /\ ~InList(s.old_flows, f))
       IN [s1 EXCEPT !.new_flows = <<f>> \o @,
                     !.fq[f].fq_flags = @ \cup {FQF_NEW_FLOW},
                     !.fq[f].fq_deficit = fcl_quantum]
  ELSE s

(* activation that does not look at the list flags *)
addq_activate_always(s, f) ==
  LET s1 == Verify(s, ~InList(s.new_flows, f) /\ ~InList(s.old_flows, f))
  IN [s1 EXCEPT !.new_flows = Append(@, f),
                !.fq[f].fq_flags = @ \cup {FQF_NEW_FLOW},
                !.fq[f].fq_deficit = fcl_quantum]

addq_activate(s, f) ==
  IF s.fq[f].fq_flags \cap {FQF_NEW_FLOW, FQF_OLD_FLOW} = {}
  THEN LET s1 == Verify(s, ~InList(s.new_flows, f) /\ ~InList(s.old_flows, f))
       IN [s1 EXCEPT !.new_flows = Append(@, f),
                     !.fq[f].fq_flags = @ \cup {FQF_NEW_FLOW},
                     !.fq[f].fq_deficit = fcl_quantum]
  ELSE s

(* fq_addq, enqueue or drop *)
addq_enqueue(s, f, in) ==
  IF s.droptype = DTYPE_NODROP
  THEN LET cnt == Len(in.chain)
           chain_len == SumLen(in.chain)
           c == addq_compress(s, f, in)
           s1 == [c.s EXCEPT !.fq[f].q = @ \o c.chain,
                             !.fq[f].fq_bytes = @ + chain_len,
                             !.stat.fcl_byte_cnt = @ + chain_len,
                             !.stat.fcl_pkt_cnt = @ + cnt,
                             !.call.queued = TRUE]
           s2 == fq_if_is_flow_heavy(s1, f)
       IN addq_activate(s2, f)
  ELSE [s EXCEPT !.ret = IF s.ret # CLASSQEQ_SUCCESS
                         THEN s.ret ELSE CLASSQEQ_DROP]

(* fq_addq that counts one memory-failure drop per chain *)
fq_addq_memfail_one(s, f, in) ==
  LET cnt == Len(in.chain)
      head == in.chain[1]
      s0 == Verify([s EXCEPT !.call.op = "addq", !.call.f = f,
                             !.call.cnt = cnt, !.call.now = head.ts,
                             !.call.was_high = FQ_IS_DELAY_HIGH(s, f),
                             !.call.idle = (s.fq[f].fq_getqtime = 0)],
                   ~head.guarded)
      in1 == [in EXCEPT !.chain = <<[head EXCEPT !.guarded = TRUE]>> \o
                                    Tail(in.chain)]
      now == head.ts
      h == fq_if_hash_pkt(s0, f, now, in.allocok)
  IN IF h.fq = NULL
     THEN [h.s EXCEPT !.stat.fcl_drop_memfailure = @ + 1,
                      !.ret = CLASSQEQ_DROP,
                      !.call.overload = "memfail"]
     ELSE addq_enqueue(
            addq_droplimit(
              addq_fcret(
                addq_overload(
                  fq_detect_dequeue_stall(h.s, f, now), f, in1),
                f, in1),
              f, in1),
            f, in1)

fq_addq(s, f, in) ==
  LET cnt == Len(in.chain)
      head == in.chain[1]
      s0 == Verify([s EXCEPT !.call.op = "addq", !.call.f = f,
                             !.call.cnt = cnt, !.call.now = head.ts,
                             !.call.was_high = FQ_IS_DELAY_HIGH(s, f),
                             !.call.idle = (s.fq[f].fq_getqtime = 0)],
                   ~head.guarded)
      in1 == [in EXCEPT !.chain = <<[head EXCEPT !.guarded = TRUE]>> \o
                                    Tail(in.chain)]
      now == head.ts
      h == fq_if_hash_pkt(s0, f, now, in.allocok)
  IN IF h.fq = NULL
     THEN [h.s EXCEPT !.stat.fcl_drop_memfailure = @ + cnt,
                      !.ret = CLASSQEQ_DROP,
                      !.call.overload = "memfail"]
     ELSE addq_enqueue(
            addq_droplimit(
              addq_fcret(
                addq_overload(
                  fq_detect_dequeue_stall(h.s, f, now), f, in1),
                f, in1),
              f, in1),
            f, in1)


(* fq_getq_flow, running average of the class queueing delay *)
getq_avg(s, qdelay) ==
  LET num_dequeues == s.stat.fcl_dequeue
  IN IF num_dequeues = 0
     THEN [s EXCEPT !.stat.fcl_avg_qdelay = qdelay]
     ELSE IF qdelay > 0
     THEN IF num_dequeues + 1 > UINT64_MAX
          THEN [s EXCEPT !.stat.fcl_dequeue = 0,
                         !.stat.fcl_avg_qdelay = qdelay,
                         !.call.avg_reset = TRUE]
          ELSE LET product == s.stat.fcl_avg_qdelay * num_dequeues
                   res == product + qdelay
               IN IF product > UINT64_MAX \/ res > UINT64_MAX
                  THEN [s EXCEPT !.stat.fcl_avg_qdelay = qdelay,
                                 !.call.avg_reset = TRUE]
                  ELSE [s EXCEPT !.stat.fcl_avg_qdelay =
                                    res \div (num_dequeues + 1)]
     ELSE s

(* interval minimum that lets a sample of zero replace a smaller one *)
getq_minmax_any(s, f, qdelay) ==
  IF s.fq[f].fq_min_qdelay = 0 \/ qdelay < s.fq[f].fq_min_qdelay
  THEN [s EXCEPT !.fq[f].fq_min_qdelay = qdelay] ELSE s

(* fq_getq_flow, minimum delay of the flow in the current interval *)
getq_minmax(s, f, qdelay) ==
  IF s.fq[f].fq_min_qdelay = 0 \/
     (qdelay > 0 /\ qdelay < s.fq[f].fq_min_qdelay)
  THEN [s EXCEPT !.fq[f].fq_min_qdelay = qdelay] ELSE s

(* rollover that takes a minimum equal to the target for high delay *)
getq_interval_ge(s, f, now) ==
  IF now >= s.fq[f].fq_updatetime
  THEN LET s1 == IF s.fq[f].fq_min_qdelay >= FQ_TARGET_DELAY(s, f)
                 THEN SetFlag(s, f, FQF_DELAY_HIGH)
                 ELSE ClearFlag(s, f, FQF_DELAY_HIGH)
       IN [s1 EXCEPT !.fq[f].fq_updatetime = now + FQ_UPDATE_INTERVAL(s, f),
                     !.fq[f].fq_min_qdelay = 0,
                     !.call.rolled = TRUE,
                     !.call.cmp = s.fq[f].fq_min_qdelay,
                     !.call.ivl = s.ivl[f],
                     !.ivl[f] = NoIvl]
  ELSE s

(* rollover that moves the deadline on from the previous deadline *)
getq_interval_fromdeadline(s, f, now) ==
  IF now >= s.fq[f].fq_updatetime
  THEN LET s1 == IF s.fq[f].fq_min_qdelay > FQ_TARGET_DELAY(s, f)
                 THEN IF ~FQ_IS_DELAY_HIGH(s, f)
                      THEN SetFlag(s, f, FQF_DELAY_HIGH) ELSE s
                 ELSE ClearFlag(s, f, FQF_DELAY_HIGH)
       IN [s1 EXCEPT !.fq[f].fq_updatetime = @ + FQ_UPDATE_INTERVAL(s, f),
                     !.fq[f].fq_min_qdelay = 0,
                     !.call.rolled = TRUE,
                     !.call.cmp = s.fq[f].fq_min_qdelay,
                     !.call.ivl = s.ivl[f],
                     !.ivl[f] = NoIvl]
  ELSE s

(* fq_getq_flow, interval rollover *)
getq_interval(s, f, now) ==
  IF now >= s.fq[f].fq_updatetime
  THEN LET s1 == IF s.fq[f].fq_min_qdelay > FQ_TARGET_DELAY(s, f)
                 THEN IF ~FQ_IS_DELAY_HIGH(s, f)
                      THEN SetFlag(s, f, FQF_DELAY_HIGH) ELSE s
                 ELSE ClearFlag(s, f, FQF_DELAY_HIGH)
       IN [s1 EXCEPT !.fq[f].fq_updatetime = now + FQ_UPDATE_INTERVAL(s, f),
                     !.fq[f].fq_min_qdelay = 0,
                     !.call.rolled = TRUE,
                     !.call.cmp = s.fq[f].fq_min_qdelay,
                     !.call.ivl = s.ivl[f],
                     !.ivl[f] = NoIvl]
  ELSE s

(* clean-up that keeps the flow-control signal once it is asserted *)
getq_cleanup_nofeedback(s, f, now) ==
  LET s1 == IF s.large_flow # f \/ ~fq_if_almost_at_drop_limit(s)
            THEN ClearFlag(s, f, FQF_OVERWHELMING) ELSE s
      s2 == IF ~FQ_IS_DELAY_HIGH(s1, f) \/ fq_empty(s1, f)
            THEN ClearFlag(s1, f, FQF_DELAY_HIGH) ELSE s1
      s4 == IF fq_empty(s2, f)
            THEN [s2 EXCEPT !.fq[f].fq_getqtime = 0]
            ELSE [s2 EXCEPT !.fq[f].fq_getqtime = now]
  IN fq_if_is_flow_heavy(s4, f)

(* clean-up that stamps the time of the dequeue on a drained flow too *)
getq_cleanup_stamp(s, f, now) ==
  LET s1 == IF s.large_flow # f \/ ~fq_if_almost_at_drop_limit(s)
            THEN ClearFlag(s, f, FQF_OVERWHELMING) ELSE s
      s2 == IF ~FQ_IS_DELAY_HIGH(s1, f) \/ fq_empty(s1, f)
            THEN ClearFlag(s1, f, FQF_DELAY_HIGH) ELSE s1
      s3 == IF FQF_FLOWCTL_ON \in s2.fq[f].fq_flags /\
               ~FQ_IS_DELAY_HIGH(s2, f) /\ ~FQ_IS_OVERWHELMING(s2, f)
            THEN [fq_if_flow_feedback(s2, f) EXCEPT !.call.released = TRUE]
            ELSE s2
      s4 == [s3 EXCEPT !.fq[f].fq_getqtime = now]
  IN fq_if_is_flow_heavy(s4, f)

(* fq_getq_flow, clean-up of the signals after the dequeue *)
getq_cleanup(s, f, now) ==
  LET s1 == IF s.large_flow # f \/ ~fq_if_almost_at_drop_limit(s)
            THEN ClearFlag(s, f, FQF_OVERWHELMING) ELSE s
      s2 == IF ~FQ_IS_DELAY_HIGH(s1, f) \/ fq_empty(s1, f)
            THEN ClearFlag(s1, f, FQF_DELAY_HIGH) ELSE s1
      s3 == IF FQF_FLOWCTL_ON \in s2.fq[f].fq_flags /\
               ~FQ_IS_DELAY_HIGH(s2, f) /\ ~FQ_IS_OVERWHELMING(s2, f)
            THEN [fq_if_flow_feedback(s2, f) EXCEPT !.call.released = TRUE]
            ELSE s2
      s4 == IF fq_empty(s3, f)
            THEN [s3 EXCEPT !.fq[f].fq_getqtime = 0]
            ELSE [s3 EXCEPT !.fq[f].fq_getqtime = now]
  IN fq_if_is_flow_heavy(s4, f)

fq_getq_flow(s, f, now) ==
  LET s0 == [s EXCEPT !.call.op = "getq", !.call.f = f, !.call.now = now,
                      !.call.was_high = FQ_IS_DELAY_HIGH(s, f),
                      !.call.deadline = s.fq[f].fq_updatetime]
      r == fq_getq_flow_internal(s0, f)
  IN IF r.pkt = NoPkt
     THEN [s |-> s0, pkt |-> NoPkt]
     ELSE LET qdelay == IF now > r.pkt.ts THEN now - r.pkt.ts ELSE 0
              s1 == [r.s EXCEPT !.call.pkt = r.pkt.id,
                                !.call.qdelay = qdelay,
                                !.ivl[f] = Observe(@, qdelay)]
              s2 == getq_avg(getq_minmax(s1, f, qdelay), qdelay)
              s3 == getq_cleanup(getq_interval(s2, f, now), f, now)
              pkt == [r.pkt EXCEPT !.ts = 0, !.guarded = FALSE]
          IN [s |-> [s3 EXCEPT !.call.out = Append(@, Released(pkt))],
              pkt |-> pkt]

(* ---------------- the state machine ---------------- *)
Init ==
  /\ fq = [f \in Flows |-> ZeroFq]
  /\ fcl_stat = ZeroStat
  /\ fcl_new_flows = <<>>
  /\ fcl_old_flows = <<>>
  /\ fqs_empty_list = <<>>
  /\ fqs_large_flow = NULL
  /\ fqs_fclist = {}
  /\ ifcq_len = 0
  /\ clock = 1
  /\ next_id = 1
  /\ panic = FALSE
  /\ last = NoCall
  /\ ivl = [f \in Flows |-> NoIvl]
  /\ stalls = [f \in Flows |-> 0]
  /\ thr = [t \in Threads |-> IdleThread]
  /\ timer = NewTimer

CommitVars(s) ==
  /\ fq' = s.fq
  /\ fcl_stat' = s.stat
  /\ fcl_new_flows' = s.new_flows
  /\ fcl_old_flows' = s.old_flows
  /\ fqs_empty_list' = s.empty_list
  /\ fqs_large_flow' = s.large_flow
  /\ fqs_fclist' = s.fclist
  /\ ifcq_len' = s.ifcq_len
  /\ panic' = s.panic
  /\ ivl' = s.ivl
  /\ last' = [s.call EXCEPT !.ret = s.ret]

Commit(s) == CommitVars(s) /\ UNCHANGED <<thr, timer>>

(* a chain of cnt packets stamped with the current time *)
MkChain(cnt, len, gen) ==
  [i \in 1 .. cnt |->
     [id |-> next_id + i - 1, len |-> len, ts |-> clock, gen |-> gen,
      guarded |-> FALSE, first |-> (i = 1)]]

Admitted(ret) ==
  ret \in {CLASSQEQ_SUCCESS, CLASSQEQ_SUCCESS_FC, CLASSQEQ_COMPRESSED}

(* the enqueue entry point of the scheduler: fq_addq, then the        *)
(* interface queue length grows by the chain when it was not dropped; *)
(* P bounds the chains offered                                        *)
AdmitIn(f, P) ==
  /\ ~panic
  /\ \E cnt \in P.cnts, len \in P.lens, gen \in P.gens,
        proto \in P.protos, fadv \in P.fadvs, allocok \in P.allocs,
        fcok \in P.fcoks :
       /\ next_id + cnt - 1 <= P.maxp
       /\ (fq[f].alloc => allocok)
       /\ (~(fadv /\ FlowCtlCapable(f)) => (fcok /\ proto = IPPROTO_TCP))
       /\ LET in == [chain |-> MkChain(cnt, len, gen), proto |-> proto,
                     fadv |-> fadv, allocok |-> allocok, fcok |-> fcok]
              s == fq_addq(Cur, f, in)
              s0 == IF Admitted(s.ret)
                    THEN [s EXCEPT !.ifcq_len = @ + cnt] ELSE s
              s1 == [s0 EXCEPT
                       !.call.nomem = ~fq[f].alloc /\ ~allocok,
                       !.call.in = IF P.trace
                                   THEN [proto |-> proto, fadv |-> fadv,
                                         fcok |-> fcok]
                                   ELSE NoIn]
          IN /\ Commit(s1)
             /\ next_id' = next_id + cnt
             /\ stalls' = [stalls EXCEPT ![f] = @ +
                              (s1.stat.fcl_dequeue_stall -
                               fcl_stat.fcl_dequeue_stall)]
  /\ UNCHANGED clock

(* chains of packets of one or two bytes, with or without a generation *)
(* marker, of every protocol class, offered at one instant             *)
AllChains ==
  [maxp |-> MaxPkts, cnts |-> 1 .. MaxChain, lens |-> {1, 2},
   gens |-> {0, 1}, protos |-> Protos, fadvs |-> BOOLEAN,
   allocs |-> {TRUE}, fcoks |-> BOOLEAN,
   trace |-> FALSE]

Admit(f) == AdmitIn(f, AllChains)

(* the scheduler services a flow of its new or old list: fq_getq_flow, *)
(* the class dequeue counter, and a new flow becomes an old flow       *)
Dequeue(f) ==
  /\ ~panic
  /\ fq[f].alloc
  /\ fq[f].fq_flags \cap {FQF_NEW_FLOW, FQF_OLD_FLOW} # {}
  /\ LET r == fq_getq_flow(Cur, f, clock)
         s1 == IF r.pkt # NoPkt
               THEN [r.s EXCEPT
                       !.stat.fcl_dequeue = (@ + 1) % (UINT64_MAX + 1)]
               ELSE r.s
         s2 == IF FQF_NEW_FLOW \in s1.fq[f].fq_flags
               THEN fq_if_empty_new_flow(s1, f) ELSE s1
     IN /\ Commit([s2 EXCEPT
                      !.ret = IF r.pkt = NoPkt THEN "empty" ELSE "pkt"])
        /\ stalls' = IF r.pkt = NoPkt THEN stalls
                     ELSE [stalls EXCEPT ![f] = 0]
  /\ UNCHANGED <<clock, next_id>>

(* the scheduler finds an old flow drained and retires it to the empty list *)
EmptyOld(f) ==
  /\ ~panic
  /\ FQF_OLD_FLOW \in fq[f].fq_flags
  /\ fq[f].q = <<>>
  /\ Commit([fq_if_empty_old_flow(Cur, f) EXCEPT
               !.call.op = "empty_old", !.call.f = f, !.ret = "none"])
  /\ UNCHANGED <<clock, next_id, stalls>>

TickTo(maxt) ==
  /\ ~panic
  /\ clock < maxt
  /\ clock' = clock + 1
  /\ last' = [NoCall EXCEPT !.op = "tick"]
  /\ UNCHANGED <<fq, fcl_stat, fcl_new_flows, fcl_old_flows, fqs_empty_list,
                 fqs_large_flow, fqs_fclist, ifcq_len, next_id, panic, ivl,
                 stalls, thr, timer>>

Next ==
  \/ \E f \in Flows : Admit(f)
  \/ \E f \in Flows : Dequeue(f)
  \/ \E f \in Flows : EmptyOld(f)

Spec == Init /\ [][Next]_vars

(* one flow-control capable flow over a longer stretch of time *)
TimedChains ==
  [maxp |-> MaxPktsT, cnts |-> 1 .. MaxChain, lens |-> {1},
   gens |-> {0}, protos |-> {IPPROTO_TCP, IPPROTO_UDP}, fadvs |-> BOOLEAN,
   allocs |-> {TRUE}, fcoks |-> BOOLEAN,
   trace |-> FALSE]

NextTime ==
  \/ AdmitIn(1, TimedChains)
  \/ Dequeue(1)
  \/ EmptyOld(1)
  \/ TickTo(MaxTimeT)

SpecTime == Init /\ [][NextTime]_vars

(* one flow without flow control, packets with generation markers, *)
(* admitted at different instants                                  *)
CompChains ==
  [maxp |-> MaxPkts, cnts |-> 1 .. MaxChain, lens |-> {1, 2},
   gens |-> {0, 1, 2}, protos |-> {IPPROTO_TCP}, fadvs |-> {FALSE},
   allocs |-> {TRUE}, fcoks |-> {TRUE},
   trace |-> FALSE]

NextComp ==
  \/ AdmitIn(2, CompChains)
  \/ Dequeue(2)
  \/ EmptyOld(2)
  \/ TickTo(MaxTimeC)

SpecComp == Init /\ [][NextComp]_vars

(* one flow-control capable flow that is left unserviced while packets *)
(* keep arriving                                                       *)
StallChains ==
  [maxp |-> MaxPktsS, cnts |-> 1 .. MaxChain, lens |-> {1},
   gens |-> {0}, protos |-> {IPPROTO_TCP}, fadvs |-> BOOLEAN,
   allocs |-> {TRUE}, fcoks |-> {TRUE},
   trace |-> FALSE]

NextStall ==
  \/ AdmitIn(1, StallChains)
  \/ Dequeue(1)
  \/ EmptyOld(1)
  \/ TickTo(MaxTimeS)

SpecStall == Init /\ [][NextStall]_vars

(* a class that has already dequeued close to UINT64_MAX packets *)
InitAvg ==
  /\ fq = [f \in Flows |-> ZeroFq]
  /\ \E d \in {0, UINT64_MAX - 1, UINT64_MAX}, a \in 0 .. 2 :
       /\ (d = 0 => a = 0)
       /\ fcl_stat = [ZeroStat EXCEPT !.fcl_dequeue = d,
                                      !.fcl_avg_qdelay = a]
  /\ fcl_new_flows = <<>>
  /\ fcl_old_flows = <<>>
  /\ fqs_empty_list = <<>>
  /\ fqs_large_flow = NULL
  /\ fqs_fclist = {}
  /\ ifcq_len = 0
  /\ clock = 1
  /\ next_id = 1
  /\ panic = FALSE
  /\ last = NoCall
  /\ ivl = [f \in Flows |-> NoIvl]
  /\ stalls = [f \in Flows |-> 0]
  /\ thr = [t \in Threads |-> IdleThread]
  /\ timer = NewTimer

AvgChains ==
  [maxp |-> MaxPkts, cnts |-> 1 .. MaxChain, lens |-> {1},
   gens |-> {0}, protos |-> {IPPROTO_TCP}, fadvs |-> {FALSE},
   allocs |-> {TRUE}, fcoks |-> {TRUE},
   trace |-> FALSE]

NextAvg ==
  \/ AdmitIn(2, AvgChains)
  \/ Dequeue(2)
  \/ EmptyOld(2)
  \/ TickTo(MaxTimeC)

SpecAvg == InitAvg /\ [][NextAvg]_vars

(* the scheduler puts a flow it is servicing on its dequeue list and *)
(* takes it off again                                                *)
DqList(f) ==
  /\ ~panic
  /\ fq[f].alloc
  /\ fq[f].fq_flags \cap {FQF_NEW_FLOW, FQF_OLD_FLOW} # {}
  /\ fq' = [fq EXCEPT ![f].fq_in_dqlist = ~@]
  /\ last' = [NoCall EXCEPT !.op = "dqlist", !.f = f]
  /\ UNCHANGED <<fcl_stat, fcl_new_flows, fcl_old_flows, fqs_empty_list,
                 fqs_large_flow, fqs_fclist, ifcq_len, clock, next_id, panic,
                 ivl, stalls, thr, timer>>

(* pool aging: an idle flow is taken off the empty list and destroyed *)
PurgeEmpty(f) ==
  /\ ~panic
  /\ fq[f].alloc
  /\ FQF_EMPTY_FLOW \in fq[f].fq_flags
  /\ LET s1 == [Cur EXCEPT !.empty_list = RemoveFrom(@, f),
                           !.fq[f].fq_flags = @ \ {FQF_EMPTY_FLOW},
                           !.call.op = "purge", !.call.f = f]
     IN Commit([fq_destroy(s1, f) EXCEPT !.ret = "none"])
  /\ UNCHANGED <<clock, next_id, stalls>>

(* destroy called on a flow queue in whatever state it is in *)
Destroy(f) ==
  /\ ~panic
  /\ fq[f].alloc
  /\ Commit([fq_destroy([Cur EXCEPT !.call.op = "destroy", !.call.f = f], f)
               EXCEPT !.ret = "none"])
  /\ UNCHANGED <<clock, next_id, stalls>>

(* plain chains offered while the flow queue pool may be exhausted *)
MemChains ==
  [maxp |-> MaxPkts, cnts |-> 1 .. MaxChain, lens |-> {1},
   gens |-> {0}, protos |-> {IPPROTO_TCP}, fadvs |-> {FALSE},
   allocs |-> BOOLEAN, fcoks |-> {TRUE},
   trace |-> FALSE]

NextLife ==
  \/ \E f \in Flows : AdmitIn(f, MemChains)
  \/ \E f \in Flows : Dequeue(f)
  \/ \E f \in Flows : EmptyOld(f)
  \/ \E f \in Flows : DqList(f)
  \/ \E f \in Flows : PurgeEmpty(f)
  \/ \E f \in Flows : Destroy(f)

SpecLife == Init /\ [][NextLife]_vars

(* one flow-control capable flow under overload, the protocol, the *)
(* advisory flag and the fate of the registration on record        *)
OverChains ==
  [maxp |-> MaxPktsT, cnts |-> 1 .. MaxChain, lens |-> {1},
   gens |-> {0}, protos |-> {IPPROTO_TCP, IPPROTO_QUIC, IPPROTO_UDP},
   fadvs |-> BOOLEAN, allocs |-> {TRUE}, fcoks |-> BOOLEAN,
   trace |-> TRUE]

NextOver ==
  \/ AdmitIn(1, OverChains)
  \/ Dequeue(1)
  \/ EmptyOld(1)
  \/ TickTo(MaxTimeC)

SpecOver == Init /\ [][NextOver]_vars

(* two flows without flow advisories that share the interface limit; *)
(* the scheduler services the first one only                         *)
TwoChains ==
  [maxp |-> MaxPktsO, cnts |-> 1 .. MaxChain, lens |-> {1},
   gens |-> {0}, protos |-> {IPPROTO_TCP}, fadvs |-> {FALSE},
   allocs |-> {TRUE}, fcoks |-> {TRUE},
   trace |-> TRUE]

NextTwo ==
  \/ \E f \in {1, 2} : AdmitIn(f, TwoChains)
  \/ Dequeue(1)
  \/ TickTo(MaxTimeC)

SpecTwo == Init /\ [][NextTwo]_vars

(* one flow-control capable flow that can become the largest flow: *)
(* packets of two bytes, every protocol class, clock ticks         *)
FcChains ==
  [maxp |-> MaxPktsT, cnts |-> 1 .. MaxChain, lens |-> {2},
   gens |-> {0}, protos |-> {IPPROTO_TCP, IPPROTO_UDP}, fadvs |-> BOOLEAN,
   allocs |-> {TRUE}, fcoks |-> BOOLEAN,
   trace |-> FALSE]

NextFc ==
  \/ AdmitIn(1, FcChains)
  \/ Dequeue(1)
  \/ EmptyOld(1)
  \/ TickTo(MaxTimeC)

SpecFc == Init /\ [][NextFc]_vars

(* a caller error: a packet that is resident in the queue of flow f is *)
(* handed to fq_addq once more, with the flags it carries by now       *)
Readmit(f, maxp) ==
  /\ ~panic
  /\ next_id <= maxp
  /\ \E i \in 1 .. Len(fq[f].q) :
       LET p == [fq[f].q[i] EXCEPT !.first = TRUE]
           in == [chain |-> <<p>>, proto |-> IPPROTO_TCP, fadv |-> FALSE,
                  allocok |-> TRUE, fcok |-> TRUE]
           s == fq_addq(Cur, f, in)
           s0 == IF Admitted(s.ret)
                 THEN [s EXCEPT !.ifcq_len = @ + 1] ELSE s
           s1 == [s0 EXCEPT !.call.dup = IF p.guarded THEN "tagged"
                                         ELSE "untagged"]
       IN /\ Commit(s1)
          /\ next_id' = next_id + 1
          /\ stalls' = [stalls EXCEPT ![f] = @ +
                           (s1.stat.fcl_dequeue_stall -
                            fcl_stat.fcl_dequeue_stall)]
  /\ UNCHANGED clock

(* one flow that can become the largest flow, chains of one or two *)
(* packets, and packets that are admitted twice                    *)
TagChains ==
  [maxp |-> MaxPktsT, cnts |-> 1 .. MaxChain, lens |-> {1, 2},
   gens |-> {0}, protos |-> {IPPROTO_TCP}, fadvs |-> {FALSE},
   allocs |-> {TRUE}, fcoks |-> {TRUE},
   trace |-> FALSE]

NextTag ==
  \/ AdmitIn(2, TagChains)
  \/ Readmit(2, MaxPktsT)
  \/ Dequeue(2)
  \/ EmptyOld(2)

SpecTag == Init /\ [][NextTag]_vars

(* ---- two threads on two flows of one class ---- *)
(* Thread t runs admits and removes on flow t under the lock of that   *)
(* flow; the interface lock covers the drop-limit step and             *)
(* fq_if_is_flow_heavy only.  The statements                           *)
(*   fq_cl->fcl_stat.fcl_byte_cnt += chain_len (-= plen)               *)
(*   fq_cl->fcl_stat.fcl_pkt_cnt += cnt        (--)                    *)
(* are plain read-modify-write sequences on the shared class record,   *)
(* so each is a load step and a store step of the thread; everything   *)
(* else the operation does is done at once when it starts.  A thread   *)
(* may instead hold the interface lock from the start of its operation *)
(* to its last store (locked).                                         *)
IfqLockFree_always(t) == TRUE

(* the interface lock is not held by another thread *)
IfqLockFree(t) == \A u \in Threads \ {t} : ~thr[u].locked

RaceStart(t, s, locked) ==
  /\ CommitVars([s EXCEPT !.stat.fcl_byte_cnt = fcl_stat.fcl_byte_cnt,
                          !.stat.fcl_pkt_cnt = fcl_stat.fcl_pkt_cnt])
  /\ thr' = [thr EXCEPT ![t] =
               [pc |-> "load_bytes", reg |-> 0,
                db |-> s.stat.fcl_byte_cnt - fcl_stat.fcl_byte_cnt,
                dp |-> s.stat.fcl_pkt_cnt - fcl_stat.fcl_pkt_cnt,
                locked |-> locked, bare |-> thr[t].bare \/ ~locked]]
  /\ UNCHANGED <<clock, stalls, timer>>

(* an admit of one packet that is queued without any drop *)
RaceAdmit(t) ==
  /\ ~panic
  /\ thr[t].pc = "idle"
  /\ next_id <= MaxPkts
  /\ IfqLockFree(t)
  /\ \E len \in {1, 2}, locked \in BOOLEAN :
       LET in == [chain |-> MkChain(1, len, 0), proto |-> IPPROTO_TCP,
                  fadv |-> FALSE, allocok |-> TRUE, fcok |-> TRUE]
           s == fq_addq(Cur, t, in)
       IN /\ s.call.queued /\ s.call.drops = <<>>
          /\ RaceStart(t, [s EXCEPT !.ifcq_len = @ + 1], locked)
          /\ next_id' = next_id + 1

(* a remove of the head packet of the flow *)
RaceRemove(t) ==
  /\ ~panic
  /\ thr[t].pc = "idle"
  /\ fq[t].q # <<>>
  /\ IfqLockFree(t)
  /\ LET r == fq_getq_flow(Cur, t, clock)
         s1 == [r.s EXCEPT
                  !.stat.fcl_dequeue = (@ + 1) % (UINT64_MAX + 1)]
         s2 == IF FQF_NEW_FLOW \in s1.fq[t].fq_flags
               THEN fq_if_empty_new_flow(s1, t) ELSE s1
     IN \E locked \in BOOLEAN :
          RaceStart(t, [s2 EXCEPT !.ret = "pkt"], locked)
  /\ UNCHANGED next_id

RaceStep(t, from, to, stat) ==
  /\ thr[t].pc = from
  /\ thr' = [thr EXCEPT ![t] =
               IF to = "idle" THEN [IdleThread EXCEPT !.bare = thr[t].bare]
               ELSE [@ EXCEPT !.pc = to,
                              !.reg = IF from = "load_bytes"
                                      THEN fcl_stat.fcl_byte_cnt
                                      ELSE IF from = "load_pkts"
                                      THEN fcl_stat.fcl_pkt_cnt ELSE 0]]
  /\ fcl_stat' = stat
  /\ UNCHANGED <<fq, fcl_new_flows, fcl_old_flows, fqs_empty_list,
                 fqs_large_flow, fqs_fclist, ifcq_len, clock, next_id, panic,
                 last, ivl, stalls, timer>>

RaceLoadBytes(t) == RaceStep(t, "load_bytes", "store_bytes", fcl_stat)

RaceStoreBytes(t) ==
  RaceStep(t, "store_bytes", "load_pkts",
           [fcl_stat EXCEPT !.fcl_byte_cnt = thr[t].reg + thr[t].db])

RaceLoadPkts(t) == RaceStep(t, "load_pkts", "store_pkts", fcl_stat)

RaceStorePkts(t) ==
  RaceStep(t, "store_pkts", "idle",
           [fcl_stat EXCEPT !.fcl_pkt_cnt = thr[t].reg + thr[t].dp])

NextRace ==
  \/ \E t \in Threads : RaceAdmit(t)
  \/ \E t \in Threads : RaceRemove(t)
  \/ \E t \in Threads : RaceLoadBytes(t)
  \/ \E t \in Threads : RaceStoreBytes(t)
  \/ \E t \in Threads : RaceLoadPkts(t)
  \/ \E t \in Threads : RaceStorePkts(t)

SpecRace == Init /\ [][NextRace]_vars

(* ---------------- the timer kernel object (mk_timer.c) ---------------- *)
(* Every section run under timer->lock is one step.  simple_lock on a   *)
(* timer that was already given back to its zone is recorded in stale.  *)
mk_timer_lock(tm) == [tm EXCEPT !.stale = @ \/ (tm.freed > 0)]

(* zfree(mk_timer_zone, timer) followed by ipc_port_release_send *)
mk_timer_free(tm, who) == [tm EXCEPT !.freed = @ + 1, !.freer = who]

(* thread_call_enter1 / thread_call_enter_delayed_with_leeway: TRUE when *)
(* the call was already on the queue, else it is put there               *)
thread_call_enter(tm) ==
  [was |-> tm.pending, tm |-> [tm EXCEPT !.pending = TRUE]]

(* thread_call_cancel: TRUE when a queued call was taken off the queue; *)
(* a callback that has already been started is not affected             *)
thread_call_cancel(tm) ==
  [was |-> tm.pending, tm |-> [tm EXCEPT !.pending = FALSE]]

(* mk_timer_arm_trap_internal, the section under the timer lock *)
mk_timer_arm_trap_internal(tm0) ==
  LET tm == mk_timer_lock(tm0) IN
  IF ~tm.is_dead
  THEN LET t1 == [tm EXCEPT !.is_armed = TRUE, !.arms = @ + 1]
           e  == thread_call_enter(t1)
       IN IF ~e.was THEN [e.tm EXCEPT !.active = @ + 1] ELSE e.tm
  ELSE tm

(* mk_timer_cancel_trap that takes the call off the queue and leaves *)
(* is_armed as it was                                                *)
mk_timer_cancel_trap_keeparmed(tm0) ==
  LET tm == mk_timer_lock(tm0) IN
  IF tm.is_armed
  THEN LET c == thread_call_cancel(tm)
       IN IF c.was THEN [c.tm EXCEPT !.active = @ - 1] ELSE c.tm
  ELSE tm

(* mk_timer_cancel_trap, the section under the timer lock *)
mk_timer_cancel_trap(tm0) ==
  LET tm == mk_timer_lock(tm0) IN
  IF tm.is_armed
  THEN LET c  == thread_call_cancel(tm)
           t1 == IF c.was THEN [c.tm EXCEPT !.active = @ - 1] ELSE c.tm
       IN [t1 EXCEPT !.is_armed = FALSE]
  ELSE tm

(* mk_timer_port_destroy after ipc_kobject_disable *)
mk_timer_port_destroy_nocheck(tm) ==
  LET c  == thread_call_cancel(tm)
      t1 == IF c.was THEN [c.tm EXCEPT !.active = @ - 1] ELSE c.tm
      t2 == [t1 EXCEPT !.is_armed = FALSE, !.is_dead = TRUE]
  IN mk_timer_free(t2, "destroy")

mk_timer_port_destroy(tm) ==
  LET c  == thread_call_cancel(tm)
      t1 == IF c.was THEN [c.tm EXCEPT !.active = @ - 1] ELSE c.tm
      t2 == [t1 EXCEPT !.is_armed = FALSE, !.is_dead = TRUE]
  IN IF t2.active = 0 THEN mk_timer_free(t2, "destroy") ELSE t2

(* mk_timer_expire from the test of its while loop to the point where  *)
(* it drops the lock: either it disarms and leaves to send one message *)
(* (sending), or it gives up its count and frees a dead timer          *)
expire_loop(tm) ==
  IF tm.is_armed /\ tm.active = 1
  THEN [tm EXCEPT !.is_armed = FALSE, !.sending = @ + 1]
  ELSE LET t1 == [tm EXCEPT !.active = @ - 1] IN
       IF t1.active = 0 /\ t1.is_dead
       THEN mk_timer_free(t1, "expire")
       ELSE t1

(* mk_timer_expire from its entry to the first time it drops the lock *)
mk_timer_expire(tm0) ==
  LET tm == [mk_timer_lock(tm0) EXCEPT !.entered = @ - 1] IN
  IF tm.active > 1
  THEN [tm EXCEPT !.active = @ - 1]
  ELSE expire_loop(tm)

(* mk_timer_expire after mach_msg_send_from_kernel_proper: it takes the *)
(* lock again and tests the loop condition                              *)
mk_timer_expire_sent(tm0) ==
  LET tm == [mk_timer_lock(tm0) EXCEPT !.sending = @ - 1, !.msgs = @ + 1]
  IN expire_loop(tm)

FqIdle ==
  UNCHANGED <<fq, fcl_stat, fcl_new_flows, fcl_old_flows, fqs_empty_list,
              fqs_large_flow, fqs_fclist, ifcq_len, clock, next_id, panic,
              last, ivl, stalls, thr>>

(* mk_timer_arm_trap / mk_timer_arm_leeway_trap on a port whose timer is *)
(* still attached (otherwise KERN_INVALID_ARGUMENT and nothing changes)  *)
TimerArm ==
  /\ ~timer.port_dead
  /\ timer.arms < MaxArms
  /\ timer' = mk_timer_arm_trap_internal(timer)
  /\ FqIdle

TimerCancel ==
  /\ ~timer.port_dead
  /\ timer' = mk_timer_cancel_trap(timer)
  /\ FqIdle

(* the port is destroyed: ipc_kobject_disable detaches the timer *)
TimerPortDisable ==
  /\ ~timer.port_dead
  /\ timer' = [timer EXCEPT !.port_dead = TRUE]
  /\ FqIdle

TimerPortDestroy ==
  /\ timer.port_dead
  /\ ~timer.is_dead
  /\ timer' = mk_timer_port_destroy(timer)
  /\ FqIdle

(* the thread call machinery takes the call off its queue and starts *)
(* mk_timer_expire                                                   *)
TimerDispatch ==
  /\ timer.pending
  /\ timer' = [timer EXCEPT !.pending = FALSE, !.entered = @ + 1]
  /\ FqIdle

TimerExpire ==
  /\ timer.entered > 0
  /\ timer' = mk_timer_expire(timer)
  /\ FqIdle

TimerExpireSent ==
  /\ timer.sending > 0
  /\ timer' = mk_timer_expire_sent(timer)
  /\ FqIdle

NextTimer ==
  \/ TimerArm
  \/ TimerCancel
  \/ TimerPortDisable
  \/ TimerPortDestroy
  \/ TimerDispatch
  \/ TimerExpire
  \/ TimerExpireSent

SpecTimer == Init /\ [][NextTimer]_vars

(* ---------------- sanity of the model ---------------- *)
TypeOK ==
  /\ panic \in BOOLEAN
  /\ clock \in Nat
  /\ ifcq_len \in Nat
  /\ fqs_large_flow \in Flows \cup {NULL}
  /\ \A f \in Flows : fq[f].fq_bytes \in Nat


(* ---------------- C1 ---------------- *)
(* C1: in every state reached by admits, removes, head-drops and        *)
(* compressions, each flow's fq_bytes is the sum of the lengths of the  *)
(* packets resident in its queue, and fq_bytes is 0 exactly when the    *)
(* queue holds no packet.                                               *)
C1_BytesMatchQueue ==
  \A f \in Flows :
    /\ fq[f].fq_bytes = SumLen(fq[f].q)
    /\ (fq[f].fq_bytes = 0 <=> fq[f].q = <<>>)

(* a merge has just replaced the tail packet by a packet of another length *)
C1_Witness ==
  /\ last.op = "addq" /\ last.merged
  /\ fq[last.f].q # <<>>
  /\ fq[last.f].fq_bytes = 2
  /\ fcl_stat.fcl_byte_cnt = 2


(* ---------------- C2 ---------------- *)
(* the packets an admit discarded in its drop-limit branch *)
LimitDrops(c) == SubSeq(c.drops, c.odrops + 1, Len(c.drops))

(* C2: an admit that finds the interface at its drop limit with a       *)
(* largest flow recorded and the chain not yet dropped discards, to     *)
(* make room, only packets from the head of the recorded largest flow   *)
(* (oldest first), leaves every other flow's resident packets alone,    *)
(* and then queues the incoming chain.                                  *)
C2_Step ==
  (last'.op = "addq" /\ last'.limit \in {"self", "other"}) =>
    LET c == last'
        L == c.large
        ld == LimitDrops(c)
        preL == IF L = c.f
                THEN SubSeq(fq[L].q, c.odrops + 1, Len(fq[L].q))
                ELSE fq[L].q
    IN /\ L # NULL
       /\ Len(ld) <= Len(preL)
       /\ \A i \in 1 .. Len(ld) : ld[i].f = L /\ ld[i].id = preL[i].id
       /\ \A g \in Flows \ {L, c.f} : fq'[g].q = fq[g].q
       /\ L # c.f =>
            /\ fq'[L].q = SubSeq(preL, Len(ld) + 1, Len(preL))
            /\ Len(fq'[c.f].q) >= Len(fq[c.f].q) - c.odrops
       /\ c.queued /\ Admitted(c.ret)
       /\ fq'[c.f].q # <<>>
       /\ fq'[c.f].q[Len(fq'[c.f].q)].id = next_id' - 1

C3_FlowControlReturn ==
  last.op = "addq" =>
    /\ (last.fc_set /\ last.queued) => last.ret = CLASSQEQ_SUCCESS_FC
    /\ last.ret = CLASSQEQ_SUCCESS => ~last.fc_set


(* ---------------- C4 ---------------- *)
(* C4: for a flow that stays non-empty, the remove that crosses the     *)
(* interval deadline sets delay_high when every packet removed in that  *)
(* interval had a delay above the target and clears it when every one   *)
(* of them had a delay at or below the target; between two deadlines a  *)
(* set flag stays set.                                                  *)
C4_DelayHighHysteresis ==
  (last.op \in {"addq", "getq"} /\ fq[last.f].q # <<>>) =>
    LET high == FQF_DELAY_HIGH \in fq[last.f].fq_flags
    IN /\ (last.rolled /\ last.ivl.lo > fqg_target_qdelay) => high
       /\ (last.rolled /\ last.ivl.hi <= fqg_target_qdelay) => ~high
       /\ (~last.rolled /\ last.was_high) => high

(* a rollover has just cleared a flag that an earlier rollover had set *)
C4_Witness ==
  /\ last.op = "getq" /\ last.rolled /\ last.was_high
  /\ last.ivl.n >= 1 /\ last.ivl.hi <= fqg_target_qdelay
  /\ last.ivl.hi > 0
  /\ fq[last.f].q # <<>>
  /\ FQF_DELAY_HIGH \notin fq[last.f].fq_flags


(* ---------------- C5 ---------------- *)
(* C5: with compression enabled, an admit of a single packet B that     *)
(* takes no drop and whose non-zero generation marker equals that of    *)
(* the flow's tail packet A replaces A by B at the tail: the packet     *)
(* counts of the flow and of the class do not change, the byte counts   *)
(* of both change by len(B) - len(A), and B carries A's enqueue         *)
(* timestamp (so repeated merges keep the first version's timestamp).   *)
C5_Step ==
  LET f == last'.f
      q == fq[f].q
      q2 == fq'[f].q
  IN (/\ last'.op = "addq" /\ last'.cnt = 1 /\ last'.queued
      /\ last'.drops = <<>>
      /\ pkt_compressor # 0
      /\ q # <<>> /\ q2 # <<>>
      /\ q2[Len(q2)].gen # 0
      /\ q2[Len(q2)].gen = q[Len(q)].gen) =>
       LET A == q[Len(q)]
           B == q2[Len(q2)]
       IN /\ B.id = next_id
          /\ Len(q2) = Len(q)
          /\ Front(q2) = Front(q)
          /\ B.ts = A.ts
          /\ fq'[f].fq_bytes = fq[f].fq_bytes + B.len - A.len
          /\ fcl_stat'.fcl_byte_cnt = fcl_stat.fcl_byte_cnt + B.len - A.len
          /\ fcl_stat'.fcl_pkt_cnt = fcl_stat.fcl_pkt_cnt
          /\ ifcq_len' = ifcq_len
          /\ last'.ret = CLASSQEQ_COMPRESSED

C5_CompressionReplacesTail == [][C5_Step]_vars

(* a longer packet has just replaced an older tail and carries its timestamp *)
C5_Witness ==
  /\ last.op = "addq" /\ last.merged /\ last.drops = <<>>
  /\ Len(fq[last.f].q) = 1
  /\ fq[last.f].q[1].ts < last.now
  /\ fq[last.f].q[1].len = 2
  /\ fq[last.f].fq_bytes = 2
  /\ fcl_stat.fcl_byte_cnt = 2 /\ fcl_stat.fcl_pkt_cnt = 1


(* ---------------- C6 ---------------- *)
(* C6: between two successive successful removes from a flow, the class *)
(* stall counter is incremented at most once on behalf of that flow,    *)
(* however many admissions arrive while the flow remains stalled.       *)
C6_StallCountedOnce == \A f \in Flows : stalls[f] <= 1

(* an admission to a flow whose stall was already counted, and which *)
(* still has the backlog and the idle time of a stalled flow         *)
C6_Witness ==
  /\ last.op = "addq" /\ ~last.stall
  /\ ~last.queued /\ last.drops = <<>>
  /\ stalls[last.f] = 1
  /\ fcl_stat.fcl_dequeue_stall = 1
  /\ fq[last.f].fq_getqtime # 0
  /\ fq[last.f].fq_bytes >= FQ_MIN_FC_THRESHOLD_BYTES
  /\ last.now > fq[last.f].fq_getqtime + fqg_update_interval

(* ---------------- C7 ---------------- *)
(* the stall check of an admit, compared with the state before the admit; *)
(* enough(bytes) is the backlog condition                                 *)
StallStep(enough(_)) ==
  last'.op = "addq" =>
    LET f == last'.f
        now == last'.now
        fires == /\ fq[f].fq_getqtime # 0
                 /\ fq[f].q # <<>>
                 /\ enough(fq[f].fq_bytes)
                 /\ FQF_DELAY_HIGH \notin fq[f].fq_flags
                 /\ now - fq[f].fq_getqtime > fqg_update_interval
    IN /\ fcl_stat'.fcl_dequeue_stall =
            fcl_stat.fcl_dequeue_stall + (IF fires THEN 1 ELSE 0)
       /\ fires => FQF_DELAY_HIGH \in fq'[f].fq_flags
       /\ ~fires => (FQF_DELAY_HIGH \in fq'[f].fq_flags <=>
                     FQF_DELAY_HIGH \in fq[f].fq_flags)

MoreThanMin(b) == b > FQ_MIN_FC_THRESHOLD_BYTES
AtLeastMin(b) == b >= FQ_MIN_FC_THRESHOLD_BYTES

(* C7 as stated: on admit the stall check sets delay_high and counts one *)
(* stall exactly when last_dequeue_time is non-zero, the flow is         *)
(* non-empty, its queued bytes are more than the minimum backlog,        *)
(* delay_high is not set, and the packet timestamp minus                 *)
(* last_dequeue_time exceeds the update interval; otherwise it changes   *)
(* neither the flag nor the counter.                                     *)
C7_StallPrecondition == [][StallStep(MoreThanMin)]_vars

(* C7 amended: the same, with queued bytes of at least the minimum *)
(* backlog.                                                        *)
C7_StallPreconditionAtLeast == [][StallStep(AtLeastMin)]_vars

(* a stall counted for a flow that held exactly the minimum backlog *)
C7_Witness ==
  /\ last.op = "addq" /\ last.stall
  /\ ~last.queued /\ last.drops = <<>>
  /\ fq[last.f].fq_bytes = FQ_MIN_FC_THRESHOLD_BYTES
  /\ FQF_DELAY_HIGH \in fq[last.f].fq_flags
  /\ fcl_stat.fcl_dequeue_stall = 1

(* ---------------- C8 ---------------- *)
(* C8: whenever a successful remove finds the class dequeue counter at  *)
(* its maximum, or that average x counter + sample would overflow, the  *)
(* counter and the running average are reset so that they reflect only  *)
(* the current sample (average = current qdelay), for every value of    *)
(* the sample.                                                          *)
C8_Step ==
  (/\ last'.op = "getq" /\ last'.ret = "pkt"
   /\ \/ fcl_stat.fcl_dequeue = UINT64_MAX
      \/ fcl_stat.fcl_avg_qdelay * fcl_stat.fcl_dequeue + last'.qdelay
           > UINT64_MAX) =>
     /\ fcl_stat'.fcl_avg_qdelay = last'.qdelay
     /\ fcl_stat'.fcl_dequeue <= 1

C8_OverflowResetsAverage == [][C8_Step]_vars

(* ---------------- C9 ---------------- *)
DropTotal(st) ==
  st.fcl_drop_memfailure + st.fcl_drop_early + st.fcl_drop_overflow +
  st.fcl_flow_control_fail

(* C9: for every admit call the total increase of the drop-cause        *)
(* counters (memory failure, early, overflow, flow-control failure)     *)
(* equals the number of packets discarded during the call: packets of   *)
(* the incoming chain that were not queued plus resident packets        *)
(* removed by head-drop.                                                *)
C9_Step ==
  last'.op = "addq" =>
    DropTotal(fcl_stat') - DropTotal(fcl_stat) =
      (IF last'.queued THEN 0 ELSE last'.cnt) + Len(last'.drops)

C9_DropsCountedByCause == [][C9_Step]_vars

(* ---------------- C10 ---------------- *)
ListFlags == {FQF_NEW_FLOW, FQF_OLD_FLOW, FQF_EMPTY_FLOW}

(* C10: at every point between operations each flow carries at most one *)
(* of the New, Old and Empty flags, and an admit moves the flow it was  *)
(* called for to the empty list only when the flow holds zero bytes and *)
(* is neither New nor Old.                                              *)
C10_Step ==
  /\ \A f \in Flows : Cardinality(fq'[f].fq_flags \cap ListFlags) <= 1
  /\ \A f \in Flows :
       (last'.op = "addq" /\ f = last'.f /\
        (FQF_EMPTY_FLOW \in fq'[f].fq_flags \/ InList(fqs_empty_list', f))) =>
         /\ fq'[f].fq_bytes = 0 /\ fq'[f].q = <<>>
         /\ fq[f].fq_flags \cap {FQF_NEW_FLOW, FQF_OLD_FLOW} = {}
         /\ ~InList(fcl_new_flows', f) /\ ~InList(fcl_old_flows', f)

C10_OneListState == [][C10_Step]_vars

(* a fresh flow whose first chain was dropped at the limit sits on the *)
(* empty list                                                          *)
C10_Witness ==
  /\ last.op = "addq" /\ last.to_empty /\ last.limit = "nolarge"
  /\ fq[last.f].fq_flags \cap ListFlags = {FQF_EMPTY_FLOW}
  /\ InList(fqs_empty_list, last.f)
  /\ fq[last.f].fq_bytes = 0
  /\ \E g \in Flows : FQF_NEW_FLOW \in fq[g].fq_flags


(* ---------------- C11 ---------------- *)
Occurrences(list, f) ==
  Cardinality({i \in 1 .. Len(list) : list[i] = f})

(* C11: an admit that queues the chain on a flow that is neither New    *)
(* nor Old appends the flow once to the tail of the new-flows list,     *)
(* marks it New and sets its deficit to the class quantum; an admit on  *)
(* a flow already New or Old leaves its list flags, its list membership *)
(* and its deficit unchanged; an admit that drops the chain never marks *)
(* the flow New nor links it into the new-flows list. A flow appears at *)
(* most once in the new-flows list.                                     *)
C11_Step ==
  /\ \A g \in Flows : Occurrences(fcl_new_flows', g) <= 1
  /\ last'.op = "addq" =>
       LET f == last'.f
           active == fq[f].fq_flags \cap {FQF_NEW_FLOW, FQF_OLD_FLOW} # {}
       IN /\ (last'.queued /\ ~active) =>
               /\ fcl_new_flows' # <<>>
               /\ fcl_new_flows'[Len(fcl_new_flows')] = f
               /\ ~InList(fcl_new_flows, f)
               /\ fq'[f].fq_flags \cap ListFlags = {FQF_NEW_FLOW}
               /\ fq'[f].fq_deficit = fcl_quantum
          /\ active =>
               /\ fq'[f].fq_flags \cap ListFlags = fq[f].fq_flags \cap ListFlags
               /\ fq'[f].fq_deficit = fq[f].fq_deficit
               /\ InList(fcl_new_flows', f) <=> InList(fcl_new_flows, f)
               /\ InList(fcl_old_flows', f) <=> InList(fcl_old_flows, f)
               /\ last'.drops = <<>> =>
                    /\ fcl_new_flows' = fcl_new_flows
                    /\ fcl_old_flows' = fcl_old_flows
          /\ ~last'.queued =>
               /\ FQF_NEW_FLOW \in fq'[f].fq_flags =>
                    FQF_NEW_FLOW \in fq[f].fq_flags
               /\ InList(fcl_new_flows', f) => InList(fcl_new_flows, f)

C11_ActivationOnce == [][C11_Step]_vars

(* a flow just activated behind another new flow *)
C11_Witness ==
  /\ last.op = "addq" /\ last.queued /\ ~last.merged /\ last.drops = <<>>
  /\ Len(fcl_new_flows) = 2
  /\ fcl_new_flows[2] = last.f
  /\ fcl_new_flows[1] # last.f
  /\ Len(fq[last.f].q) = last.cnt
  /\ FQF_NEW_FLOW \in fq[last.f].fq_flags
  /\ fq[last.f].fq_deficit = fcl_quantum

(* ---------------- C12 ---------------- *)
Ascending(q) == \A i, j \in 1 .. Len(q) : i < j => q[i].id < q[j].id

(* C12: packets leave a flow in the order in which they were admitted   *)
(* to it (a chain in chain order): the resident packets are always in   *)
(* admission order, each successful remove returns the oldest resident  *)
(* packet and leaves the rest in place, and a remove on an empty flow   *)
(* reports empty.                                                       *)
C12_Step ==
  /\ \A g \in Flows : Ascending(fq'[g].q)
  /\ last'.op = "getq" =>
       LET f == last'.f
       IN IF fq[f].q = <<>>
          THEN last'.ret = "empty" /\ fq'[f].q = <<>>
          ELSE /\ last'.ret = "pkt"
               /\ last'.pkt = Head(fq[f].q).id
               /\ fq'[f].q = Tail(fq[f].q)
               /\ \A i \in 1 .. Len(fq'[f].q) : last'.pkt < fq'[f].q[i].id

C12_FifoOrder == [][C12_Step]_vars

(* the second packet of a flow was removed after the first, a third waits *)
C12_Witness ==
  /\ last.op = "getq" /\ last.ret = "pkt"
  /\ last.pkt = 2
  /\ fq[last.f].q # <<>>
  /\ fq[last.f].q[1].id = 3


(* ---------------- C13 ---------------- *)
(* C13: when the classifier cannot provide a flow queue (pool           *)
(* exhausted), admit returns CLASSQEQ_DROP, adds the chain's packet     *)
(* count to the memory-failure drop counter, and leaves every flow's    *)
(* queue, byte count and flags and the class byte and packet counts     *)
(* unchanged; it does not abort.                                        *)
C13_Step ==
  (last'.op = "addq" /\ last'.nomem) =>
    /\ last'.ret = CLASSQEQ_DROP
    /\ fcl_stat'.fcl_drop_memfailure =
         fcl_stat.fcl_drop_memfailure + last'.cnt
    /\ fcl_stat' = [fcl_stat EXCEPT !.fcl_drop_memfailure =
                                       fcl_stat'.fcl_drop_memfailure]
    /\ fq' = fq
    /\ fcl_new_flows' = fcl_new_flows /\ fcl_old_flows' = fcl_old_flows
    /\ fqs_empty_list' = fqs_empty_list
    /\ ifcq_len' = ifcq_len
    /\ ~panic'

C13_MemFailureDrops == [][C13_Step]_vars

(* a chain of two packets refused for want of a flow queue while the *)
(* other flow holds packets                                        *)
C13_Witness ==
  /\ last.op = "addq" /\ last.nomem /\ last.cnt = 2
  /\ last.ret = CLASSQEQ_DROP
  /\ fcl_stat.fcl_drop_memfailure = 2
  /\ ~fq[last.f].alloc
  /\ fcl_stat.fcl_pkt_cnt >= 1
  /\ ~panic

(* ---------------- C14 ---------------- *)
(* C14: fq_destroy releases a flow queue only if the flow is not in the *)
(* dequeue list, holds no packet, has zero bytes and none of the New,   *)
(* Old and Empty flags; called in any other state it aborts and the     *)
(* flow queue is not released.                                          *)
C14_Step ==
  last'.op \in {"destroy", "purge"} =>
    LET f == last'.f
        flags == IF last'.op = "purge"
                 THEN fq[f].fq_flags \ {FQF_EMPTY_FLOW} ELSE fq[f].fq_flags
        detached == /\ ~fq[f].fq_in_dqlist
                    /\ fq[f].q = <<>>
                    /\ fq[f].fq_bytes = 0
                    /\ flags \cap ListFlags = {}
    IN IF detached
       THEN ~panic' /\ ~fq'[f].alloc
       ELSE /\ panic'
            /\ fq'[f].alloc
            /\ fq'[f].q = fq[f].q /\ fq'[f].fq_bytes = fq[f].fq_bytes

C14_DestroyOnlyDetached == [][C14_Step]_vars

(* an idle flow was released while the other flow is still in service *)
C14_Witness ==
  /\ last.op = "purge" /\ ~panic
  /\ ~fq[last.f].alloc
  /\ \E g \in Flows : fq[g].alloc /\ fq[g].q # <<>>


(* ---------------- C15 ---------------- *)
AdmitResults ==
  {CLASSQEQ_SUCCESS, CLASSQEQ_SUCCESS_FC, CLASSQEQ_COMPRESSED,
   CLASSQEQ_DROP, CLASSQEQ_DROP_FC}

(* packets removed by the head-drop loop of the overload branch *)
OverloadDrops(c) == IF c.limit = "none" THEN Len(c.drops) ELSE c.odrops

Overloaded ==
  /\ last'.op = "addq" /\ ~last'.nomem
  /\ \/ FQF_DELAY_HIGH \in fq[last'.f].fq_flags
     \/ FQF_OVERWHELMING \in fq[last'.f].fq_flags
     \/ last'.stall

(* ... and the flow is flow-control capable and the packet eligible *)
OverloadedAdvisory ==
  /\ Overloaded
  /\ FQF_FLOWCTL_CAPABLE \in fq[last'.f].fq_flags
  /\ last'.in.fadv

(* flow control is asserted: the entry is registered and the flow is    *)
(* marked, or the registration fails and the failure is counted         *)
FcAsserted ==
  LET f == last'.f
  IN IF last'.in.fcok \/ f \in fqs_fclist
     THEN /\ f \in fqs_fclist'
          /\ FQF_FLOWCTL_ON \in fq'[f].fq_flags
          /\ fcl_stat'.fcl_flow_control_fail = fcl_stat.fcl_flow_control_fail
     ELSE fcl_stat'.fcl_flow_control_fail =
            fcl_stat.fcl_flow_control_fail + 1

FcUntouched ==
  LET f == last'.f
  IN /\ fqs_fclist' = fqs_fclist
     /\ FQF_FLOWCTL_ON \in fq'[f].fq_flags <=>
          FQF_FLOWCTL_ON \in fq[f].fq_flags
     /\ fcl_stat'.fcl_flow_control_fail = fcl_stat.fcl_flow_control_fail

DroppedAtOnce ==
  /\ ~last'.queued
  /\ last'.drops = <<>>
  /\ fcl_stat'.fcl_drop_early = fcl_stat.fcl_drop_early + last'.cnt

NotDroppedHere == fcl_stat'.fcl_drop_early = fcl_stat.fcl_drop_early

(* C16 as stated, the listed protocols being those that cannot react to *)
(* the advisory (all but TCP and QUIC): in the overload branch with a   *)
(* capable flow and an eligible packet the chain is dropped at once     *)
(* exactly for a listed protocol, and then flow control is not          *)
(* asserted; for every other protocol flow control is asserted and the  *)
(* chain is not dropped by this branch.                                 *)
C16_OrigStep ==
  OverloadedAdvisory =>
    IF NotTcpQuic(last'.in.proto)
    THEN DroppedAtOnce /\ FcUntouched
    ELSE NotDroppedHere /\ FcAsserted

C16_DropInsteadOfAdvisory == [][C16_OrigStep]_vars

(* C16 amended: the chain is dropped at once exactly when its protocol  *)
(* is neither TCP nor QUIC, and flow control is asserted for every      *)
(* protocol, for the dropped chains as well (they return                *)
(* CLASSQEQ_DROP_FC).                                                   *)
C16_Step ==
  OverloadedAdvisory =>
    /\ FcAsserted
    /\ IF NotTcpQuic(last'.in.proto)
       THEN DroppedAtOnce /\ last'.ret = CLASSQEQ_DROP_FC
       ELSE NotDroppedHere

C16_DropAndAdvisory == [][C16_Step]_vars

(* a UDP chain was dropped on a delay-high flow and the flow is now *)
(* flow controlled                                                  *)
C16_Witness ==
  /\ last.op = "addq" /\ last.overload = "fcdrop" /\ last.was_high
  /\ last.in.proto = IPPROTO_UDP /\ last.in.fadv /\ last.in.fcok
  /\ ~last.queued
  /\ last.ret = CLASSQEQ_DROP_FC
  /\ FQF_FLOWCTL_ON \in fq[last.f].fq_flags
  /\ last.f \in fqs_fclist

(* ---------------- C17 ---------------- *)
(* C17: in the overload branch, when the flow is not flow-control       *)
(* capable or the packet is not eligible: a flow holding q >= 1 packets *)
(* loses exactly min(cnt, q) packets, oldest first, and no other flow   *)
(* loses any, and the chain is then queued behind the survivors when    *)
(* the drop-limit branch does not apply; an empty flow has the chain    *)
(* dropped as an early drop and stays empty.                            *)
C17_Step ==
  (Overloaded /\ ~(FQF_FLOWCTL_CAPABLE \in fq[last'.f].fq_flags /\
                   last'.in.fadv)) =>
    LET f == last'.f
        q == fq[f].q
        c == last'
        m == Min(c.cnt, Len(q))
    IN IF q # <<>>
       THEN /\ OverloadDrops(c) = m
            /\ \A i \in 1 .. m :
                 c.drops[i].f = f /\ c.drops[i].id = q[i].id
            /\ c.limit = "none" =>
                 /\ c.queued
                 /\ \A g \in Flows \ {f} : fq'[g].q = fq[g].q
                 /\ Len(fq'[f].q) = Len(q) - m + c.cnt
                 /\ \A i \in 1 .. Len(q) - m : fq'[f].q[i] = q[m + i]
                 /\ \A i \in 1 .. c.cnt :
                      fq'[f].q[Len(q) - m + i].id = next_id + i - 1
       ELSE /\ ~c.queued /\ c.drops = <<>>
            /\ c.ret = CLASSQEQ_DROP
            /\ fcl_stat'.fcl_drop_early = fcl_stat.fcl_drop_early + c.cnt
            /\ fq'[f].q = <<>>

C18_Step ==
  (OverloadedAdvisory /\ ~last'.in.fcok /\ last'.f \notin fqs_fclist) =>
    /\ ~last'.queued
    /\ fq'[last'.f].q = fq[last'.f].q
    /\ last'.ret = CLASSQEQ_DROP_FC
    /\ fcl_stat'.fcl_flow_control_fail = fcl_stat.fcl_flow_control_fail + 1
    /\ FQF_FLOWCTL_ON \in fq'[last'.f].fq_flags =>
         FQF_FLOWCTL_ON \in fq[last'.f].fq_flags
    /\ last'.f \notin fqs_fclist'

C18_RegistrationFailureDrops == [][C18_Step]_vars

(* a TCP chain refused because the advisory could not be registered *)
C18_Witness ==
  /\ last.op = "addq" /\ last.overload = "fc" /\ last.was_high
  /\ last.in.proto = IPPROTO_TCP /\ last.in.fadv /\ ~last.in.fcok
  /\ ~last.queued
  /\ last.ret = CLASSQEQ_DROP_FC
  /\ fcl_stat.fcl_flow_control_fail = 1
  /\ FQF_FLOWCTL_ON \notin fq[last.f].fq_flags
  /\ fq[last.f].q # <<>>


(* ---------------- C19 ---------------- *)
(* C19: when the interface is at its drop limit, the chain has not      *)
(* already been dropped and no largest flow is recorded, admit drops    *)
(* the whole chain, returns CLASSQEQ_DROP, adds the chain's packet      *)
(* count to the overflow drop counter and, if the flow is empty and     *)
(* neither New nor Old, moves it to the empty list in the same call.    *)
C19_Step ==
  LET f == last'.f
  IN /\ (/\ last'.op = "addq" /\ ~last'.nomem
         /\ last'.overload = "none"
         /\ ifcq_len >= fqs_pkt_droplimit
         /\ fqs_large_flow = NULL) => last'.limit = "nolarge"
     /\ (last'.op = "addq" /\ last'.limit = "nolarge") =>
          /\ fqs_large_flow = NULL
          /\ ~last'.queued
          /\ fq'[f].q = fq[f].q
          /\ last'.ret = CLASSQEQ_DROP
          /\ fcl_stat'.fcl_drop_overflow =
               fcl_stat.fcl_drop_overflow + last'.cnt
          /\ (fq'[f].q = <<>> /\
              fq[f].fq_flags \cap {FQF_NEW_FLOW, FQF_OLD_FLOW} = {}) =>
               /\ FQF_EMPTY_FLOW \in fq'[f].fq_flags
               /\ Occurrences(fqs_empty_list', f) = 1

C19_NoLargestFlowDrops == [][C19_Step]_vars

(* the first packet for a flow that did not exist was dropped at the *)
(* limit and the flow went to the empty list                         *)
C19_Witness ==
  /\ last.op = "addq" /\ last.limit = "nolarge" /\ last.cnt = 1
  /\ last.ret = CLASSQEQ_DROP
  /\ fcl_stat.fcl_drop_overflow = 1
  /\ fq[last.f].alloc /\ fq[last.f].q = <<>>
  /\ FQF_EMPTY_FLOW \in fq[last.f].fq_flags
  /\ fqs_empty_list = <<last.f>>
  /\ ifcq_len >= fqs_pkt_droplimit

(* ---------------- C20 ---------------- *)
(* C20: at the end of every admit and every remove a flow whose         *)
(* delay-high flag is set holds at least one packet, also after admits  *)
(* that head-drop resident packets.                                     *)
C20_DelayHighNotEmpty ==
  last.op \in {"addq", "getq"} =>
    \A f \in Flows :
      FQF_DELAY_HIGH \in fq[f].fq_flags => fq[f].q # <<>>



(* ---------------- C21 ---------------- *)
(* C21: at the end of every admit and every remove, a flow whose        *)
(* flow-control signal is asserted (FQF_FLOWCTL_ON) is delay-high or    *)
(* overwhelming: a remove that leaves the flow with neither flag has    *)
(* released the signal and its table entry in that same remove, and an  *)
(* admit asserts the signal only while one of the two flags is set.     *)
C21_FlowControlNeedsCause ==
  \A f \in Flows :
    /\ FQF_FLOWCTL_ON \in fq[f].fq_flags =>
         fq[f].fq_flags \cap {FQF_DELAY_HIGH, FQF_OVERWHELMING} # {}
    /\ (last.op = "getq" /\ last.f = f /\ last.pkt # NULL /\
        fq[f].fq_flags \cap {FQF_DELAY_HIGH, FQF_OVERWHELMING} = {}) =>
         (FQF_FLOWCTL_ON \notin fq[f].fq_flags /\ f \notin fqs_fclist)

(* a remove has just released the signal of a flow that is no longer *)
(* delay-high nor overwhelming                                       *)
C21_Witness ==
  /\ last.op = "getq" /\ last.released /\ last.pkt # NULL
  /\ last.f \notin fqs_fclist
  /\ FQF_FLOWCTL_ON \notin fq[last.f].fq_flags
  /\ fq[last.f].fq_flags \cap {FQF_DELAY_HIGH, FQF_OVERWHELMING} = {}

(* ---------------- C22 ---------------- *)
(* the running average a remove at time now must leave for the sample *)
(* of the packet at the head of flow f when no overflow is involved   *)
IncrementalMean(avg, n, qdelay) ==
  IF n = 0 THEN qdelay ELSE (avg * n + qdelay) \div (n + 1)

NoOverflow(avg, n, qdelay) ==
  n + 1 <= UINT64_MAX /\ avg * n + qdelay <= UINT64_MAX

C22_Step ==
  (last'.op = "getq" /\ last'.pkt # NULL) =>
    LET f == last'.f
        n == fcl_stat.fcl_dequeue
        avg == fcl_stat.fcl_avg_qdelay
        ts == Head(fq[f].q).ts
        qdelay == IF last'.now > ts THEN last'.now - ts ELSE 0
    IN /\ last'.qdelay = qdelay
       /\ NoOverflow(avg, n, qdelay) =>
            fcl_stat'.fcl_avg_qdelay = IncrementalMean(avg, n, qdelay)

(* C22: on each successful remove with n > 0 dequeues recorded for the  *)
(* class and no overflow, the class running average becomes             *)
(* floor((avg * n + qdelay) / (n + 1)) with qdelay = max(0, now -       *)
(* packet timestamp), for every sample including qdelay = 0; with       *)
(* n = 0 it becomes qdelay.                                             *)
C22_IncrementalMean == [][C22_Step]_vars

(* ---------------- C23 ---------------- *)
(* C23: the value compared against the target at an interval rollover   *)
(* is the smallest non-zero queueing delay among the packets removed    *)
(* from the flow since the previous rollover, the packet whose removal  *)
(* triggers the rollover included, or 0 if none of them had a non-zero  *)
(* delay; the interval minimum is 0 right after every rollover, and     *)
(* between rollovers it is that smallest non-zero delay so far.         *)
C23_IntervalMinimum ==
  /\ (last.op = "getq" /\ last.rolled) =>
        /\ last.ivl.n >= 1
        /\ last.cmp = last.ivl.nz
        /\ fq[last.f].fq_min_qdelay = 0
        /\ ivl[last.f] = NoIvl
  /\ \A f \in Flows : fq[f].fq_min_qdelay = ivl[f].nz

(* a rollover over an interval in which one packet left without delay *)
(* and another one with a delay above the target                      *)
C23_Witness ==
  /\ last.op = "getq" /\ last.rolled
  /\ last.ivl.n >= 2 /\ last.ivl.lo = 0
  /\ last.cmp > fqg_target_qdelay

(* ---------------- C24 ---------------- *)
(* what a successful remove did to the deadline of its flow, the new *)
(* deadline after a rollover being given by next(now, deadline)      *)
DeadlineRule(next(_, _)) ==
  (last.op = "getq" /\ last.pkt # NULL) =>
    LET f == last.f
    IN IF last.now >= last.deadline
       THEN /\ last.rolled
            /\ fq[f].fq_updatetime = next(last.now, last.deadline)
       ELSE /\ ~last.rolled
            /\ fq[f].fq_updatetime = last.deadline
            /\ FQF_DELAY_HIGH \in fq[f].fq_flags => last.was_high

FromDeadline(now, deadline) == deadline + fqg_update_interval

FromNow(now, deadline) == now + fqg_update_interval

(* C24 as stated: a remove at now >= deadline performs a rollover that  *)
(* advances the deadline of the flow by the interval length, new        *)
(* deadline = previous deadline + interval; a remove at now < deadline  *)
(* leaves the deadline unchanged and does not set delay-high.           *)
C24_DeadlinePlusInterval == DeadlineRule(FromDeadline)

(* C24 amended: a remove at now >= deadline performs a rollover that    *)
(* sets the deadline of the flow to now + interval; a remove at         *)
(* now < deadline leaves the deadline unchanged and does not set        *)
(* delay-high.                                                          *)
C24_DeadlineFromNow == DeadlineRule(FromNow)

(* a rollover by a remove that came later than the deadline *)
C24_Witness ==
  /\ last.op = "getq" /\ last.rolled
  /\ last.now > last.deadline
  /\ fq[last.f].fq_updatetime = last.now + fqg_update_interval

(* ---------------- C25 ---------------- *)
(* how many packets of flow f a call discarded *)
DropsOf(c, f) == Len(SelectSeq(c.drops, LAMBDA d : d.f = f))

C25_Step ==
  (last'.op = "addq" /\ last'.queued) =>
    LET f == last'.f
        cnt == last'.cnt
        k == DropsOf(last', f)
        kept == SubSeq(fq[f].q, k + 1, Len(fq[f].q))
        q2 == fq'[f].q
        chain == SubSeq(q2, Len(q2) - cnt + 1, Len(q2))
    IN /\ Len(q2) >= cnt /\ k <= Len(fq[f].q)
       /\ last'.merged =>
            /\ pkt_compressor # 0
            /\ cnt = 1
            /\ chain[1].gen # 0
            /\ kept # <<>>
            /\ kept[Len(kept)].gen = chain[1].gen
            /\ q2 = Front(kept) \o chain
       /\ ~last'.merged =>
            /\ q2 = kept \o chain
            /\ Len(q2) = Len(fq[f].q) - k + cnt
            /\ fq'[f].fq_bytes =
                 fq[f].fq_bytes - SumLen(SubSeq(fq[f].q, 1, k)) + SumLen(chain)

(* C25: an admit merges only when compression is enabled, the chain     *)
(* has exactly one packet, its generation marker is non-zero, the flow  *)
(* is non-empty and the marker of the tail packet equals it; in every   *)
(* other admit that queues its chain (in particular a chain of 2 or     *)
(* more packets whose markers match the tail) the compressor removes    *)
(* no resident packet: the queue is what the head-drops of the admit    *)
(* left, followed by the chain, so that without head-drops the packet   *)
(* count grows by the chain length and the byte count by the byte       *)
(* length of the chain.                                                 *)
C25_MergeOnlySinglePacket == [][C25_Step]_vars

(* a chain of two packets was queued behind a resident packet that *)
(* carries the same non-zero generation marker, and nothing merged *)
C25_Witness ==
  /\ last.op = "addq" /\ last.queued /\ ~last.merged
  /\ last.cnt = 2 /\ last.drops = <<>>
  /\ Len(fq[last.f].q) = 3
  /\ fq[last.f].q[1].gen # 0
  /\ fq[last.f].q[1].gen = fq[last.f].q[2].gen

(* ---------------- C26 ---------------- *)
(* C26: at the end of every admit, remove and head-drop a flow that     *)
(* holds no packet has fq_getqtime = 0, and after a successful remove   *)
(* at time now that leaves the flow non-empty fq_getqtime = now; hence  *)
(* an admit that finds fq_getqtime = 0, as all admits do between the    *)
(* draining of the flow and its next remove, never detects a stall and  *)
(* leaves fq_getqtime at 0.                                             *)
C26_IdleTimeNotCounted ==
  /\ \A f \in Flows : fq[f].q = <<>> => fq[f].fq_getqtime = 0
  /\ (last.op = "getq" /\ last.pkt # NULL /\ fq[last.f].q # <<>>) =>
       fq[last.f].fq_getqtime = last.now
  /\ (last.op = "addq" /\ last.idle) =>
       (~last.stall /\ fq[last.f].fq_getqtime = 0)

(* the flow drained, and an admit finds its oldest packet waiting for *)
(* more than an update interval with the minimum backlog behind it    *)
C26_Witness ==
  /\ last.op = "addq" /\ last.idle /\ ~last.queued /\ last.drops = <<>>
  /\ fcl_stat.fcl_dequeue >= 1
  /\ fq[last.f].fq_bytes >= FQ_MIN_FC_THRESHOLD_BYTES
  /\ last.now > fq[last.f].q[1].ts + fqg_update_interval

(* ---------------- C27 ---------------- *)
(* the packets a call handed back or discarded by head-drop leave with *)
(* the tag cleared and the timestamp zeroed                            *)
ReleasedClean ==
  \A i \in 1 .. Len(last.out) :
    ~last.out[i].guarded /\ last.out[i].ts = 0

(* a packet that carries the tag and is admitted again stops the system *)
TaggedTwiceFatal == (last.dup = "tagged") => panic

(* C27 as stated: every packet of an admitted chain carries the tag     *)
(* (PKTF_PRIV_GUARDED) for as long as it is resident in a flow queue, a *)
(* packet handed back by remove or discarded by head-drop has the tag   *)
(* cleared and its timestamp zeroed, and admitting a packet that        *)
(* already carries the tag is a fatal error.                            *)
C27_EveryPacketTagged ==
  /\ \A f \in Flows : \A i \in 1 .. Len(fq[f].q) : fq[f].q[i].guarded
  /\ ReleasedClean
  /\ TaggedTwiceFatal

(* C27 amended: the first packet of every admitted chain carries the    *)
(* tag for as long as it is resident in a flow queue, the other packets *)
(* of a chain are not tagged; a packet handed back by remove or         *)
(* discarded by head-drop has the tag cleared and its timestamp zeroed; *)
(* admitting a chain whose first packet already carries the tag is a    *)
(* fatal error.                                                         *)
C27_FirstPacketTagged ==
  /\ \A f \in Flows : \A i \in 1 .. Len(fq[f].q) :
       fq[f].q[i].guarded <=> fq[f].q[i].first
  /\ ReleasedClean
  /\ TaggedTwiceFatal

(* an admit head-dropped a packet and queued its own tagged one behind  *)
(* the untagged second packet of an earlier chain                       *)
C27_Witness ==
  /\ last.op = "addq" /\ last.queued /\ last.out # <<>>
  /\ Len(fq[last.f].q) = 2
  /\ ~fq[last.f].q[1].guarded
  /\ fq[last.f].q[2].guarded

(* ---------------- C28 ---------------- *)
(* byte and packet counts of the flows of a set, added up *)
RECURSIVE FlowBytes(_)
FlowBytes(S) ==
  IF S = {} THEN 0
  ELSE LET f == CHOOSE g \in S : TRUE
       IN fq[f].fq_bytes + FlowBytes(S \ {f})

RECURSIVE FlowPkts(_)
FlowPkts(S) ==
  IF S = {} THEN 0
  ELSE LET f == CHOOSE g \in S : TRUE
       IN Len(fq[f].q) + FlowPkts(S \ {f})

C29_Step ==
  (last'.op = "addq" /\
   last'.ret \in {CLASSQEQ_DROP, CLASSQEQ_DROP_FC}) =>
    fq'[last'.f].q = fq[last'.f].q

(* C29: whenever an admit returns CLASSQEQ_DROP or CLASSQEQ_DROP_FC, the *)
(* packets resident in the queue of the admitting flow are exactly       *)
(* those resident before the call: one admit never both head-drops       *)
(* resident packets of the flow and discards the incoming chain.         *)
C29_DropLeavesQueue == [][C29_Step]_vars

(* ---------------- C30 ---------------- *)
(* callbacks of the timer that were queued or started and have not *)
(* finished                                                        *)
Outstanding ==
  (IF timer.pending THEN 1 ELSE 0) + timer.entered + timer.sending

(* C30: under every interleaving of arm, cancel, port destroy and the *)
(* expire callbacks on one timer, the timer is freed at most once,    *)
(* only after the port was destroyed (is_dead) and with no callback   *)
(* queued or running (active = 0); once the port is destroyed and no  *)
(* callback is outstanding it has been freed; active is never         *)
(* negative, and no arm, cancel or expire step takes the lock of a    *)
(* timer that was freed.                                              *)
C30_FreedOnceWhenQuiet ==
  /\ timer.freed <= 1
  /\ timer.freed = 1 =>
       timer.is_dead /\ timer.active = 0 /\ Outstanding = 0
  /\ (timer.is_dead /\ Outstanding = 0) => timer.freed = 1
  /\ timer.active >= 0
  /\ ~timer.stale

(* the last callback frees a timer whose port was destroyed while the *)
(* callback was sending its message, after two arms                   *)
C30_Witness ==
  /\ timer.freed = 1
  /\ timer.freer = "expire"
  /\ timer.arms >= 2
  /\ timer.msgs >= 1

(* ---------------- C31 ---------------- *)
(* messages sent or being sent, plus the arm still waiting to be served *)
Claimed(tm) ==
  tm.msgs + tm.sending + (IF tm.is_armed THEN 1 ELSE 0)

(* mk_timer_arm_trap_internal applied to tm after its port was destroyed *)
ArmOnDead(tm) ==
  LET d == [tm EXCEPT !.is_dead = TRUE]
      r == mk_timer_arm_trap_internal(d)
  IN /\ r.pending = d.pending
     /\ r.active = d.active
     /\ r.is_armed = d.is_armed
     /\ r.arms = d.arms

C31_Step ==
  /\ Claimed(timer') <= timer'.arms
  /\ (TimerCancel \/ TimerPortDestroy) => ~timer'.is_armed
  /\ timer'.sending > timer.sending => timer.is_armed /\ ~timer'.is_armed
  /\ timer'.msgs > timer.msgs => timer.sending > 0
  /\ (timer'.is_armed /\ ~timer.is_armed) => timer'.arms = timer.arms + 1
  /\ timer.is_dead =>
       /\ timer'.pending => timer.pending
       /\ timer'.active <= timer.active
       /\ timer'.arms = timer.arms
  /\ ArmOnDead(timer')

(* C31: under every interleaving of arm, cancel and the expire       *)
(* callbacks on one timer, the expiration messages sent never exceed *)
(* the arms that took effect; a callback sends a message only if it  *)
(* finds is_armed set when it tests it under the lock, so no message *)
(* is sent for an arm that was cancelled, or whose port was          *)
(* destroyed, before that test; and an arm on a dead timer schedules *)
(* no callback.                                                      *)
C31_MessagesNeedLiveArm == [][C31_Step]_vars

(* the port was destroyed after an arm and before the callback tested *)
(* is_armed: the callback sent nothing and freed the timer            *)
C31_Witness ==
  /\ timer.freer = "expire"
  /\ timer.arms >= 1
  /\ timer.msgs = 0

====
